---- MODULE Spec2Model ----
(***************************************************************************)
(* Video annotation pipeline of dagshub-annotation-converter: the IR       *)
(* record (IRVideoBBoxAnnotation), the MOT exporter with its frame         *)
(* densification, the MOT line codec and file import, the CVAT video track *)
(* codec and the Label Studio VideoRectangle codec.                        *)
(*                                                                         *)
(* Numbers: Python floats are modelled as exact rationals [n, d] in lowest *)
(* terms (d > 0).  Optional values are <<>> (None) or <<v>>.  A value of   *)
(* the open `meta` dict is a tag naming its Python value: "absent" (key    *)
(* missing), "True"/"False" (bool), "i0"/"i1" (int), "s:..." (str).        *)
(***************************************************************************)
EXTENDS Integers, Sequences, FiniteSets, TLC

VARIABLES
    anns,      \* the list of IR records in the caller's hands
    ctx,       \* the MOTContext object shared by the export calls
    ctx_in,    \* that context as the last export_to_mot call found it
    gt,        \* the rows of gt.txt as last written by export_to_mot
    gt_prev,   \* the rows written by the export_to_mot call before that
    xml,       \* the CVAT document (meta and <track> elements) last exported / given
    track_elem, \* the CVAT <track> element last exported / given, if any
    seq_length_arg, \* the seq_length argument the caller gives the CVAT exporter
    size_arg,  \* the image_width / image_height arguments the caller gives it
    video,     \* the video_file the caller gives the exporters, as a probe finds it
    converted, \* the last normalized() / denormalized() call, if any: the index of
               \* its record and the record it returned
    ls,        \* the Label Studio VideoRectangle value last built / given
    orig,      \* the artefact the run started from (round-trip reference)
    trail,     \* the operations applied so far, in order
    err        \* the exception raised by the last operation, or "none"

vars ==
    <<anns, ctx, ctx_in, gt, gt_prev, xml, track_elem, seq_length_arg, size_arg, video,
      converted, ls, orig, trail, err>>

----------------------------------------------------------------------------
(* Bounds of the model *)

MaxFrame == 4
MaxLen == 2
MaxSeqLength == 6
MaxBoxes == 3

----------------------------------------------------------------------------
(* Optional values and rationals *)

None == <<>>
Some(v) == <<v>>
IsNone(o) == o = <<>>
Val(o) == o[1]

Abs(x) == IF x < 0 THEN 0 - x ELSE x

RECURSIVE Gcd(_, _)
Gcd(a, b) == IF b = 0 THEN a ELSE Gcd(b, a % b)

Rat(n, d) ==
    LET g == Gcd(Abs(n), Abs(d))
        s == IF d < 0 THEN 0 - 1 ELSE 1
    IN  [n |-> (s * n) \div g, d |-> (s * d) \div g]

R(i) == [n |-> i, d |-> 1]
RAdd(a, b) == Rat(a.n * b.d + b.n * a.d, a.d * b.d)
RSub(a, b) == Rat(a.n * b.d - b.n * a.d, a.d * b.d)
RMul(a, b) == Rat(a.n * b.n, a.d * b.d)
RDiv(a, b) == Rat(a.n * b.d, a.d * b.n)
RLt(a, b) == a.n * b.d < b.n * a.d
RLe(a, b) == a.n * b.d <= b.n * a.d

----------------------------------------------------------------------------
(* Python truthiness of meta values *)

TrueStrings == {"s:true", "s:1", "s:yes", "s:y", "s:t"}
FalseStrings == {"s:false", "s:0", "s:no", "s:n", "s:f", "s:"}

\* bool(value) for a present value
PyBool(v) == v \in {"True", "i1"} \/ (v \notin {"False", "i0", "s:"} /\ v \notin {"True", "i1"})

\* _coerce_bool_like(value) for a present value
_coerce_bool_like(v) ==
    IF v \in {"True", "False"} THEN v = "True"
    ELSE IF v \in {"i0", "i1"} THEN v # "i0"
    ELSE IF v \in TrueStrings THEN TRUE
    ELSE IF v \in FalseStrings THEN FALSE
    ELSE PyBool(v)

----------------------------------------------------------------------------
(* The IR record *)

NoMeta ==
    [outside |-> "absent", ls_enabled |-> "absent", ignored |-> "absent",
     ls_frames_count |-> None, source_format |-> "absent", z_order |-> None,
     ls_id |-> "absent"]

IRVideoBBoxAnnotation(track, frame, box, vis, meta) ==
    [track_id |-> track, frame_number |-> frame, keyframe |-> TRUE,
     left |-> box.left, top |-> box.top, width |-> box.width, height |-> box.height,
     rotation |-> R(0), visibility |-> vis, timestamp |-> None,
     coordinate_style |-> "DENORMALIZED",
     video_width |-> Some(100), video_height |-> Some(50),
     categories |-> {"person"}, meta |-> meta]

\* IRImageAnnotationBase.has_one_category
has_one_category(ann) == Cardinality(ann.categories) = 1

\* IRVideoBBoxAnnotation._denormalize via denormalized()
denormalized(ann) ==
    IF ann.coordinate_style = "DENORMALIZED" THEN ann
    ELSE [ann EXCEPT !.left = RMul(@, R(Val(ann.video_width))),
                     !.top = RMul(@, R(Val(ann.video_height))),
                     !.width = RMul(@, R(Val(ann.video_width))),
                     !.height = RMul(@, R(Val(ann.video_height))),
                     !.coordinate_style = "DENORMALIZED"]

\* IRVideoBBoxAnnotation._normalize via normalized()
normalized(ann) ==
    IF ann.coordinate_style = "NORMALIZED" THEN ann
    ELSE [ann EXCEPT !.left = RDiv(@, R(Val(ann.video_width))),
                     !.top = RDiv(@, R(Val(ann.video_height))),
                     !.width = RDiv(@, R(Val(ann.video_width))),
                     !.height = RDiv(@, R(Val(ann.video_height))),
                     !.coordinate_style = "NORMALIZED"]

\* the exception _normalize raises on a DENORMALIZED record ("none": it
\* returns): it divides left and width by the width of the frame and top and
\* height by its height, left first, then top
NormalizeError(ann) ==
    IF ann.coordinate_style = "NORMALIZED" THEN "none"
    ELSE IF IsNone(ann.video_width) THEN "TypeError"
    ELSE IF Val(ann.video_width) = 0 THEN "ZeroDivisionError"
    ELSE IF IsNone(ann.video_height) THEN "TypeError"
    ELSE IF Val(ann.video_height) = 0 THEN "ZeroDivisionError"
    ELSE "none"

\* the exception _denormalize raises on a NORMALIZED record: it multiplies
\* by the same two dimensions
DenormalizeError(ann) ==
    IF ann.coordinate_style = "DENORMALIZED" THEN "none"
    ELSE IF IsNone(ann.video_width) \/ IsNone(ann.video_height) THEN "TypeError"
    ELSE "none"

\* variant: the changes are made on the object itself
MadeInPlace(obj, changed) == changed

\* copy = obj.model_copy(...), and the assignments and meta edits that turn
\* the copy into `changed`: obj as they leave it
MadeOnCopy(obj, changed) == obj

----------------------------------------------------------------------------
(* Sorting helpers: Python's sorted() is stable *)

FrameLe(a, b) == a.frame_number <= b.frame_number
FrameTrackLe(a, b) ==
    \/ a.frame_number < b.frame_number
    \/ a.frame_number = b.frame_number /\ a.track_id <= b.track_id

\* the sort keys the code uses: frame_number, or (frame_number, track_id)
KeyLe(key, a, b) ==
    IF key = "frame_track" THEN FrameTrackLe(a, b) ELSE FrameLe(a, b)

RECURSIVE InsertBy(_, _, _)
InsertBy(key, x, s) ==
    \* insert x after every element e with e <= x: keeps equal keys in input order
    IF s = <<>> THEN <<x>>
    ELSE IF KeyLe(key, s[Len(s)], x) THEN Append(s, x)
    ELSE Append(InsertBy(key, x, SubSeq(s, 1, Len(s) - 1)), s[Len(s)])

RECURSIVE SortedBy(_, _)
SortedBy(key, s) ==
    IF s = <<>> THEN <<>>
    ELSE InsertBy(key, s[Len(s)], SortedBy(key, SubSeq(s, 1, Len(s) - 1)))

RECURSIVE Concat(_)
Concat(ss) == IF ss = <<>> THEN <<>> ELSE Head(ss) \o Concat(Tail(ss))

RECURSIVE SetToSortedSeq(_)
SetToSortedSeq(S) ==
    IF S = {} THEN <<>>
    ELSE LET m == CHOOSE x \in S : \A y \in S : x <= y
         IN  <<m>> \o SetToSortedSeq(S \ {m})

SetMax(S) == CHOOSE x \in S : \A y \in S : y <= x
SetMin(S) == CHOOSE x \in S : \A y \in S : x <= y

----------------------------------------------------------------------------
(* MOT: context, line export, densification, export_to_mot *)

\* MOTContext.get_class_id: the id of the first entry with that name, else a
\* new entry max(ids)+1.  categories is the dict as a sequence of <<id, name>>
\* in insertion order.  Returns [id, categories].
\* variant: a new entry is numbered by the size of the table
ClassIdByCount(categories, category_name) ==
    LET hits == {i \in 1..Len(categories) : categories[i][2] = category_name}
    IN  IF hits # {} THEN [id |-> categories[SetMin(hits)][1], categories |-> categories]
        ELSE [id |-> Len(categories) + 1,
              categories |-> Append(categories, <<Len(categories) + 1, category_name>>)]

get_class_id(categories, category_name) ==
    LET hits == {i \in 1..Len(categories) : categories[i][2] = category_name}
        ids == {categories[i][1] : i \in 1..Len(categories)}
    IN  IF hits # {} THEN [id |-> categories[SetMin(hits)][1], categories |-> categories]
        ELSE LET new_id == (IF ids = {} THEN 0 ELSE SetMax(ids)) + 1
             IN  [id |-> new_id, categories |-> Append(categories, <<new_id, category_name>>)]

\* variant: the frame number is written unshifted
FrameIdUnshifted(frame_number) == frame_number

\* bbox.py line 95: the first field of a row
mot_frame_id(frame_number) == frame_number + 1

\* export_bbox_to_line: one gt.txt row (the nine fields) and the updated
\* category table; err is set when the record has not exactly one category.
export_bbox_to_line(ann0, categories) ==
    LET ann == denormalized(ann0)
    IN  IF ~has_one_category(ann)
        THEN [err |-> "MultipleCategoriesError", categories |-> categories, line |-> None]
        ELSE LET r == get_class_id(categories, CHOOSE c \in ann.categories : TRUE)
                 ignored == IF ann.meta.ignored = "absent" THEN FALSE ELSE PyBool(ann.meta.ignored)
             IN  [err |-> "none", categories |-> r.categories,
                  line |-> Some([frame |-> mot_frame_id(ann.frame_number), track |-> ann.track_id,
                                 x |-> ann.left, y |-> ann.top, w |-> ann.width, h |-> ann.height,
                                 not_ignored |-> IF ignored THEN 0 ELSE 1,
                                 class_id |-> r.id, visibility |-> ann.visibility])]

\* lines = [export_bbox_to_line(ann, context) for ann in sorted_anns]
RECURSIVE ExportLines(_, _, _)
ExportLines(sorted_anns, categories, acc) ==
    IF sorted_anns = <<>> THEN [err |-> "none", categories |-> categories, lines |-> acc]
    ELSE LET r == export_bbox_to_line(Head(sorted_anns), categories)
         IN  IF r.err # "none" THEN [err |-> r.err, categories |-> r.categories, lines |-> acc]
             ELSE ExportLines(Tail(sorted_anns), r.categories, Append(acc, Val(r.line)))

_to_denormalized_for_mot(ann, context) ==
    IF ann.coordinate_style = "NORMALIZED"
    THEN denormalized(
            [ann EXCEPT
               !.video_width = IF IsNone(@) /\ ~IsNone(context.image_width)
                               THEN context.image_width ELSE @,
               !.video_height = IF IsNone(@) /\ ~IsNone(context.image_height)
                                THEN context.image_height ELSE @])
    ELSE ann

_lerp(start, end, t) == RAdd(start, RMul(RSub(end, start), t))

\* variant: no record counts as outside
NeverOutside(ann) == FALSE

_is_outside(ann) ==
    IF ann.meta.outside = "absent" THEN FALSE ELSE PyBool(ann.meta.outside)

\* variant: the ls_enabled flag is not consulted
InterpolationAlwaysEnabled(ann) == TRUE

_interpolation_enabled(ann) ==
    IF ann.meta.ls_enabled = "absent" THEN TRUE ELSE PyBool(ann.meta.ls_enabled)

\* variant: the fraction divides by the gap, not by gap + 1
FractionOverGap(step, gap) == Rat(step, gap)

\* t = step / (gap + 1)
InterpolationFraction(step, gap) == Rat(step, gap + 1)

MetaIgnored(ann) ==
    IF ann.meta.ignored = "absent" THEN FALSE ELSE PyBool(ann.meta.ignored)

\* variant: every record of the input is kept, in frame order
OrderedKeepingDuplicates(track_annotations, context) ==
    LET sorted == SortedBy("frame", track_annotations)
    IN  [k \in 1..Len(sorted) |-> _to_denormalized_for_mot(sorted[k], context)]

\* by_frame / ordered: one record per frame, the last of the input having it
Ordered(track_annotations, context) ==
    LET n == Len(track_annotations)
        frames == SetToSortedSeq({track_annotations[i].frame_number : i \in 1..n})
        last(f) == SetMax({i \in 1..n : track_annotations[i].frame_number = f})
    IN  [k \in 1..Len(frames) |->
            _to_denormalized_for_mot(track_annotations[last(frames[k])], context)]

\* variant: the gap takes the ignored flag of its earlier endpoint
IgnoredFromCurr(curr, nxt) == MetaIgnored(curr)

\* curr_ignored and nxt_ignored
GapIgnored(curr, nxt) == MetaIgnored(curr) /\ MetaIgnored(nxt)

\* the row synthesised at curr.frame_number + step, of gap + 1
Interpolated(curr, nxt, step, gap) ==
    LET t == InterpolationFraction(step, gap)
    IN  [curr EXCEPT
           !.frame_number = curr.frame_number + step,
           !.keyframe = FALSE,
           !.left = _lerp(curr.left, nxt.left, t),
           !.top = _lerp(curr.top, nxt.top, t),
           !.width = _lerp(curr.width, nxt.width, t),
           !.height = _lerp(curr.height, nxt.height, t),
           !.rotation = _lerp(curr.rotation, nxt.rotation, t),
           !.visibility = _lerp(curr.visibility, nxt.visibility, t),
           !.timestamp = IF ~IsNone(curr.timestamp) /\ ~IsNone(nxt.timestamp)
                         THEN Some(_lerp(Val(curr.timestamp), Val(nxt.timestamp), t))
                         ELSE None,
           !.meta.outside = "absent",
           !.meta.ignored = IF GapIgnored(curr, nxt) THEN "True" ELSE "absent"]

\* the rows appended for one idx of the loop over ordered
GapFill(ordered, idx) ==
    IF idx = Len(ordered) THEN <<>>
    ELSE LET curr == ordered[idx]
             nxt == ordered[idx + 1]
             gap == nxt.frame_number - curr.frame_number - 1
         IN  IF gap <= 0 \/ _is_outside(curr) \/ ~_interpolation_enabled(curr) THEN <<>>
             ELSE [step \in 1..gap |-> Interpolated(curr, nxt, step, gap)]

\* the rows appended after the loop
Extrapolated(ordered, end_frame) ==
    IF IsNone(end_frame) THEN <<>>
    ELSE LET last == ordered[Len(ordered)]
         IN  IF ~_is_outside(last) /\ _interpolation_enabled(last)
                /\ last.frame_number < Val(end_frame)
             THEN [k \in 1..(Val(end_frame) - last.frame_number) |->
                     [last EXCEPT !.frame_number = last.frame_number + k,
                                  !.keyframe = FALSE,
                                  !.meta.outside = "absent"]]
             ELSE <<>>

_interpolate_track_for_mot(track_annotations, context, end_frame) ==
    IF track_annotations = <<>> THEN <<>>
    ELSE LET ordered == Ordered(track_annotations, context)
         IN  Concat([idx \in 1..Len(ordered) |-> <<ordered[idx]>> \o GapFill(ordered, idx)])
             \o Extrapolated(ordered, end_frame)

\* tracks[track_id]: the records of one track, in input order
TrackOf(annotations, track_id) ==
    SelectSeq(annotations, LAMBDA a : a.track_id = track_id)

TrackIds(annotations) == {annotations[i].track_id : i \in 1..Len(annotations)}

\* variant: only the context's length bounds the extrapolation
TrackEndFrameFromContextOnly(track_annotations, seq_length) ==
    IF ~IsNone(seq_length) /\ Val(seq_length) > 0 THEN Some(Val(seq_length) - 1) ELSE None

\* track_end_frame of export_to_mot for one track
TrackEndFrame(track_annotations, seq_length) ==
    LET cands ==
            (IF ~IsNone(seq_length) /\ Val(seq_length) > 0 THEN {Val(seq_length) - 1} ELSE {})
            \cup {Val(track_annotations[i].meta.ls_frames_count) - 1 :
                    i \in {j \in 1..Len(track_annotations) :
                             /\ ~IsNone(track_annotations[j].meta.ls_frames_count)
                             /\ Val(track_annotations[j].meta.ls_frames_count) > 0}}
    IN  IF cands = {} THEN None ELSE Some(SetMax(cands))

\* expanded_annotations, sorted by (frame_number, track_id)
SortedAnns(annotations, context) ==
    LET ids == SetToSortedSeq(TrackIds(annotations))
        expanded == Concat([k \in 1..Len(ids) |->
                        LET track == TrackOf(annotations, ids[k])
                        IN  _interpolate_track_for_mot(
                                track, context, TrackEndFrame(track, context.seq_length))])
    IN  SortedBy("frame_track", expanded)

\* variant: the last positive dimension found on an annotation is taken
LastPositiveDim(annotations, current, field) ==
    IF ~IsNone(current) THEN current
    ELSE LET hits == {i \in 1..Len(annotations) :
                        /\ ~IsNone(annotations[i][field])
                        /\ Val(annotations[i][field]) > 0}
         IN  IF hits = {} THEN None ELSE annotations[SetMax(hits)][field]

\* the first positive dimension found on an annotation, for a context field
\* that is None (the loop of lines 412-419)
FirstDim(annotations, current, field) ==
    IF ~IsNone(current) THEN current
    ELSE LET hits == {i \in 1..Len(annotations) :
                        /\ ~IsNone(annotations[i][field])
                        /\ Val(annotations[i][field]) > 0}
         IN  IF hits = {} THEN None ELSE annotations[SetMin(hits)][field]

\* context after the dimension / frame-count resolution of lines 412-439
ResolvedContext(annotations, context, video_file) ==
    LET c1 == [context EXCEPT
                 !.image_width = FirstDim(annotations, context.image_width, "video_width"),
                 !.image_height = FirstDim(annotations, context.image_height, "video_height")]
        probe == (IsNone(c1.image_width) \/ IsNone(c1.image_height)) /\ ~IsNone(video_file)
        c2 == IF probe /\ Val(video_file).readable
              THEN [c1 EXCEPT
                      !.image_width = IF IsNone(@) THEN Some(Val(video_file).width) ELSE @,
                      !.image_height = IF IsNone(@) THEN Some(Val(video_file).height) ELSE @,
                      !.frame_rate = IF @ = 30 /\ Val(video_file).fps > 0
                                     THEN Val(video_file).fps ELSE @]
              ELSE c1
    IN  IF IsNone(c2.seq_length) /\ ~IsNone(video_file) /\ Val(video_file).readable
           /\ ~IsNone(Val(video_file).frame_count) /\ Val(Val(video_file).frame_count) > 0
        THEN [c2 EXCEPT !.seq_length = Val(video_file).frame_count]
        ELSE c2

MaxFrameNumber(sorted_anns) ==
    SetMax({sorted_anns[i].frame_number : i \in 1..Len(sorted_anns)})

\* variant: the length is overwritten whenever a row is exported
SeqLengthAlwaysOverwritten(sorted_anns, seq_length) ==
    IF sorted_anns # <<>> THEN Some(MaxFrameNumber(sorted_anns) + 1) ELSE seq_length

\* lines 469-473: context.seq_length after the exported rows are known
RecomputedSeqLength(sorted_anns, seq_length) ==
    IF sorted_anns # <<>>
       /\ (IsNone(seq_length) \/ Val(seq_length) < MaxFrameNumber(sorted_anns) + 1)
    THEN Some(MaxFrameNumber(sorted_anns) + 1)
    ELSE seq_length

\* lines 469-474: the seq_length update and the rendering of the rows
WriteRows(sorted_anns, c) ==
    LET c3 == [c EXCEPT !.seq_length = RecomputedSeqLength(sorted_anns, c.seq_length)]
        r == ExportLines(sorted_anns, c3.categories, <<>>)
    IN  [context |-> [c3 EXCEPT !.categories = r.categories], err |-> r.err, lines |-> r.lines]

\* the caller's records after the densification.  The record kept for a
\* frame of a track (the last one given) is copied by
\* _to_denormalized_for_mot when it is NORMALIZED, and every row synthesised
\* from it is made on a deep copy.
AnnotationsAfterMot(annotations, sorted_anns) ==
    [i \in 1..Len(annotations) |->
        LET ann == annotations[i]
            same == {j \in 1..Len(annotations) :
                        /\ annotations[j].track_id = ann.track_id
                        /\ annotations[j].frame_number = ann.frame_number}
            later == {annotations[j].frame_number :
                        j \in {k \in 1..Len(annotations) :
                                 /\ annotations[k].track_id = ann.track_id
                                 /\ annotations[k].frame_number > ann.frame_number}}
            derived == SelectSeq(sorted_anns,
                          LAMBDA r : /\ r.track_id = ann.track_id
                                     /\ r.frame_number >= ann.frame_number
                                     /\ \A f \in later : r.frame_number < f)
        IN  IF i = SetMax(same) THEN MadeOnCopy(ann, derived[Len(derived)]) ELSE ann]

\* export_to_mot(annotations, context, output_path, video_file): the context
\* as the call leaves it, the exception it raises ("none": it returns) and
\* the rows it writes to output_path
export_to_mot(annotations, context, video_file) ==
    LET c == ResolvedContext(annotations, context, video_file)
    IN  IF IsNone(c.image_width) \/ IsNone(c.image_height)
        THEN [context |-> c, err |-> "ValueError", lines |-> <<>>]
        ELSE WriteRows(SortedAnns(annotations, c), c)

\* the caller's records as export_to_mot leaves them
AnnotationsAfterExportToMot(annotations, context, video_file) ==
    LET c == ResolvedContext(annotations, context, video_file)
    IN  IF IsNone(c.image_width) \/ IsNone(c.image_height) THEN annotations
        ELSE AnnotationsAfterMot(annotations, SortedAnns(annotations, c))

ExportToMot(video_file) ==
    /\ Len(trail) < 2
    /\ \A i \in 1..Len(trail) : trail[i] = "export_to_mot"
    /\ LET r == export_to_mot(anns, ctx, video_file)
       IN  /\ ctx' = r.context
           /\ ctx_in' = ctx
           /\ err' = r.err
           /\ gt' = IF r.err = "none" THEN r.lines ELSE gt
           /\ gt_prev' = IF r.err = "none" THEN gt ELSE gt_prev
    /\ anns' = AnnotationsAfterExportToMot(anns, ctx, video_file)
    /\ trail' = Append(trail, "export_to_mot")
    /\ UNCHANGED <<size_arg, video, converted, xml, track_elem, seq_length_arg, ls, orig>>

----------------------------------------------------------------------------
(* Inputs of the MOT export runs *)

BoxA == [left |-> R(0), top |-> R(10), width |-> R(20), height |-> R(40)]
BoxB == [left |-> R(10), top |-> R(16), width |-> R(25), height |-> R(30)]

\* the geometry and visibility of the i-th record of an input list: all alike
\* (pattern 0) or alternating (pattern 1)
ShapeAt(pattern, i) ==
    IF (i * pattern) % 2 = 0 THEN [box |-> BoxA, vis |-> R(1)]
    ELSE [box |-> BoxB, vis |-> Rat(1, 2)]

\* meta as the importers leave it
PlainMeta == NoMeta
CvatOutsideMeta == [NoMeta EXCEPT !.outside = "True"]
LsEnabledMeta == [NoMeta EXCEPT !.outside = "False", !.ls_enabled = "True"]
LsDisabledMeta == [NoMeta EXCEPT !.outside = "False", !.ls_enabled = "False"]
LsOutsideMeta == [NoMeta EXCEPT !.outside = "True", !.ls_enabled = "False"]

\* an input list from its (track, frame, meta) triples and a shape pattern;
\* an outside record has visibility 0.0
MakeAnns(protos, pattern) ==
    [i \in 1..Len(protos) |->
        IRVideoBBoxAnnotation(
            protos[i].track, protos[i].frame, ShapeAt(pattern, i).box,
            IF protos[i].meta.outside = "True" THEN R(0) ELSE ShapeAt(pattern, i).vis,
            protos[i].meta)]

Protos(tracks, metas) ==
    [track : tracks, frame : 0..MaxFrame, meta : metas]

GapMetas == {PlainMeta, CvatOutsideMeta, LsEnabledMeta, LsDisabledMeta, LsOutsideMeta}
TailMetas ==
    {PlainMeta, CvatOutsideMeta, LsDisabledMeta,
     [LsEnabledMeta EXCEPT !.ls_frames_count = Some(MaxSeqLength)]}
TwoTrackMetas == {PlainMeta, CvatOutsideMeta}

\* no image_width and image_height argument
NoSize == [image_width |-> None, image_height |-> None]

EmptyContext ==
    [image_width |-> None, image_height |-> None, seq_length |-> None,
     frame_rate |-> 30, categories |-> <<>>]

\* category names of the records and the class tables a MOTContext is
\* constructed with (a dict keeps insertion order)
CategoryNames == {"person", "car", "dog"}
CategoryTables ==
    {<<>>, <<<<3, "car">>>>, <<<<1, "person">>, <<2, "car">>>>, <<<<2, "car">>, <<1, "person">>>>}

\* the records with the i-th one labelled names[i]
Labelled(annotations, names) ==
    [i \in 1..Len(annotations) |-> [annotations[i] EXCEPT !.categories = {names[i]}]]

\* The caller's records and context before the first export_to_mot call:
\* one track with every kind of record and no declared length; one track
\* with or without ls_frames_count under each declared length; two tracks;
\* one track of labelled records under each class table.
InitMot ==
    /\ \E k \in 0..MaxLen :
          \/ \E p \in [1..k -> Protos({1}, GapMetas)], pattern \in {0, 1} :
                /\ anns = MakeAnns(p, pattern)
                /\ ctx = EmptyContext
          \/ \E p \in [1..k -> Protos({1}, TailMetas)], sl \in {None, Some(0), Some(3)} :
                /\ anns = MakeAnns(p, 0)
                /\ ctx = [EmptyContext EXCEPT !.seq_length = sl]
          \/ \E p \in [1..k -> Protos({1, 2}, TwoTrackMetas)], sl \in {None, Some(3)} :
                /\ anns = MakeAnns(p, 0)
                /\ ctx = [EmptyContext EXCEPT !.seq_length = sl]
          \/ \E p \in [1..k -> Protos({1}, {PlainMeta})],
                n \in [1..k -> CategoryNames], table \in CategoryTables :
                /\ anns = Labelled(MakeAnns(p, 0), n)
                /\ ctx = [EmptyContext EXCEPT !.categories = table]
    /\ ctx_in = ctx
    /\ gt = <<>>
    /\ gt_prev = <<>>
    /\ xml = <<>>
    /\ track_elem = None
    /\ seq_length_arg = None
    /\ ls = <<>>
    /\ orig = <<>>
    /\ trail = <<>>
    /\ size_arg = NoSize
    /\ video = None
    /\ converted = None
    /\ err = "none"

NextMot == \E video_file \in {None} : ExportToMot(video_file)

SpecMot == InitMot /\ [][NextMot]_vars

----------------------------------------------------------------------------
(* Properties of export_to_mot.  They read the caller's records (anns), the *)
(* context the call found (ctx_in) and the rows it wrote (gt).  The record  *)
(* of a track at a frame is the last record of the input list having that   *)
(* track and frame.                                                         *)

InTracks == {anns[i].track_id : i \in 1..Len(anns)}
InFrames(t) == {anns[i].frame_number : i \in {j \in 1..Len(anns) : anns[j].track_id = t}}
InRec(t, f) ==
    anns[SetMax({i \in 1..Len(anns) : anns[i].track_id = t /\ anns[i].frame_number = f})]
Adjacent(t, a, b) ==
    /\ a \in InFrames(t)
    /\ b \in InFrames(t)
    /\ a < b
    /\ \A f \in InFrames(t) : ~(a < f /\ f < b)
MarkedOutside(r) == r.meta.outside = "True"
InterpolationDisabled(r) == r.meta.ls_enabled = "False"
Rows(t, f) == {i \in 1..Len(gt) : gt[i].track = t /\ gt[i].frame = f + 1}
RowOf(t, f) == gt[CHOOSE i \in Rows(t, f) : TRUE]
Exported == trail # <<>> /\ trail[Len(trail)] = "export_to_mot" /\ err = "none"

\* v = c + (n - c) * k / m, on rationals
LinEq(v, c, n, k, m) ==
    v.n * c.d * n.d * m = v.d * (c.n * n.d * m + (n.n * c.d - c.n * n.d) * k)

\* C1: between two consecutive records of a track at frames a < b, the earlier
\* one neither outside nor interpolation-disabled, export_to_mot writes exactly
\* one row for every frame a..b, and the row at a+k has left, top, width,
\* height and visibility equal to curr + (next - curr) * k/(b-a).
C1_GapFilledLinearly ==
    Exported =>
        \A t \in InTracks : \A a \in InFrames(t) : \A b \in InFrames(t) :
            (Adjacent(t, a, b) /\ ~MarkedOutside(InRec(t, a))
                /\ ~InterpolationDisabled(InRec(t, a)))
            => /\ \A f \in a..b : Cardinality(Rows(t, f)) = 1
               /\ \A k \in 1..(b - a - 1) :
                     /\ LinEq(RowOf(t, a + k).x, InRec(t, a).left, InRec(t, b).left, k, b - a)
                     /\ LinEq(RowOf(t, a + k).y, InRec(t, a).top, InRec(t, b).top, k, b - a)
                     /\ LinEq(RowOf(t, a + k).w, InRec(t, a).width, InRec(t, b).width, k, b - a)
                     /\ LinEq(RowOf(t, a + k).h, InRec(t, a).height, InRec(t, b).height, k, b - a)
                     /\ LinEq(RowOf(t, a + k).visibility, InRec(t, a).visibility,
                              InRec(t, b).visibility, k, b - a)

\* C1 as first stated: the same, and the rows between keyframes at frames 0
\* and 4 are interpolated at t = 0.2, 0.4, 0.6 (and 0.8).
C1_AsStated ==
    /\ C1_GapFilledLinearly
    /\ Exported =>
          \A t \in InTracks :
              (Adjacent(t, 0, 4) /\ ~MarkedOutside(InRec(t, 0))
                  /\ ~InterpolationDisabled(InRec(t, 0)))
              => \A k \in 1..3 :
                    /\ Rows(t, k) # {}
                    /\ LinEq(RowOf(t, k).x, InRec(t, 0).left, InRec(t, 4).left, k, 5)
                    /\ LinEq(RowOf(t, k).y, InRec(t, 0).top, InRec(t, 4).top, k, 5)

\* C1 witness: keyframes at frames 0 and 4 with different boxes were exported
\* to exactly the five rows of MOT frames 1..5, the second at t = 0.25.
C1_Witness ==
    /\ Exported
    /\ Len(anns) = 2
    /\ Adjacent(1, 0, 4)
    /\ ~MarkedOutside(InRec(1, 0)) /\ ~InterpolationDisabled(InRec(1, 0))
    /\ InRec(1, 0).left = R(0) /\ InRec(1, 4).left = R(10)
    /\ Len(gt) = 5
    /\ \A i \in 1..5 : gt[i].frame = i
    /\ gt[2].x = Rat(5, 2)
    /\ gt[5].x = R(10)

\* C2: after a record that is outside or has interpolation disabled, no row is
\* written for any frame strictly between it and the next record of the track.
C2_HiddenGapStaysEmpty ==
    Exported =>
        \A t \in InTracks : \A a \in InFrames(t) : \A b \in InFrames(t) :
            (Adjacent(t, a, b)
                /\ (MarkedOutside(InRec(t, a)) \/ InterpolationDisabled(InRec(t, a))))
            => \A f \in (a + 1)..(b - 1) : Rows(t, f) = {}

\* C2 witness: a visible record with ls_enabled false, then a gap of at least
\* two frames; both records were written and nothing between them.
C2_Witness ==
    /\ Exported
    /\ \E a \in InFrames(1) : \E b \in InFrames(1) :
          /\ Adjacent(1, a, b)
          /\ b - a > 2
          /\ InterpolationDisabled(InRec(1, a)) /\ ~MarkedOutside(InRec(1, a))
          /\ Rows(1, a) # {} /\ Rows(1, b) # {}
          /\ Rows(1, a + 1) = {}

\* the end frame of the claim: the maximum of seq_length - 1 and
\* ls_frames_count - 1 over the track's records, over those that are known
ClaimEndCandidates(t) ==
    (IF IsNone(ctx_in.seq_length) THEN {} ELSE {Val(ctx_in.seq_length) - 1})
    \cup {Val(anns[i].meta.ls_frames_count) - 1 :
            i \in {j \in 1..Len(anns) :
                     anns[j].track_id = t /\ ~IsNone(anns[j].meta.ls_frames_count)}}
LastFrame(t) == SetMax(InFrames(t))
RowsAfterLast(t) == {i \in 1..Len(gt) : gt[i].track = t /\ gt[i].frame - 1 > LastFrame(t)}
TailExpected(t) ==
    /\ ClaimEndCandidates(t) # {}
    /\ ~MarkedOutside(InRec(t, LastFrame(t)))
    /\ ~InterpolationDisabled(InRec(t, LastFrame(t)))
    /\ LastFrame(t) < SetMax(ClaimEndCandidates(t))

\* C3: after the last record of a track, rows for last+1 .. end_frame with the
\* last record's geometry are written iff the last record is not outside, not
\* interpolation-disabled and before end_frame; otherwise none is written.
C3_TailExtrapolation ==
    Exported =>
        \A t \in InTracks :
            IF TailExpected(t)
            THEN /\ {gt[i].frame - 1 : i \in RowsAfterLast(t)}
                       = (LastFrame(t) + 1)..SetMax(ClaimEndCandidates(t))
                 /\ \A f \in (LastFrame(t) + 1)..SetMax(ClaimEndCandidates(t)) :
                       Cardinality(Rows(t, f)) = 1
                 /\ \A i \in RowsAfterLast(t) :
                       /\ gt[i].x = InRec(t, LastFrame(t)).left
                       /\ gt[i].y = InRec(t, LastFrame(t)).top
                       /\ gt[i].w = InRec(t, LastFrame(t)).width
                       /\ gt[i].h = InRec(t, LastFrame(t)).height
            ELSE RowsAfterLast(t) = {}

\* C3 witness: a declared length of 3 frames is below the ls_frames_count of a
\* visible last record at frame 1, and the rows run on to ls_frames_count - 1.
C3_Witness ==
    /\ Exported
    /\ Len(trail) = 1
    /\ ctx_in.seq_length = Some(3)
    /\ InTracks = {1}
    /\ LastFrame(1) = 1
    /\ TailExpected(1)
    /\ SetMax(ClaimEndCandidates(1)) = MaxSeqLength - 1
    /\ Cardinality(RowsAfterLast(1)) = MaxSeqLength - 2

\* C4: a second export_to_mot call with the same records and the same context
\* object writes the same set of rows as the first.
C4_SecondCallSameRows ==
    (Len(trail) = 2 /\ Exported)
        => {gt[i] : i \in 1..Len(gt)} = {gt_prev[i] : i \in 1..Len(gt_prev)}

\* the class table of a context: its ids, and the id of a name (the first
\* entry carrying it)
TableIds(table) == {table[i][1] : i \in 1..Len(table)}
TableNames(table) == {table[i][2] : i \in 1..Len(table)}
IdOfName(table, name) ==
    table[SetMin({i \in 1..Len(table) : table[i][2] = name})][1]
NewEntries == (Len(ctx_in.categories) + 1)..Len(ctx.categories)
FirstRowWith(id) == SetMin({i \in 1..Len(gt) : gt[i].class_id = id})
NameOf(r) == CHOOSE c \in r.categories : TRUE

C21_RowsStrictlyOrdered ==
    Exported =>
        \A i \in 1..(Len(gt) - 1) :
            \/ gt[i].frame < gt[i + 1].frame
            \/ gt[i].frame = gt[i + 1].frame /\ gt[i].track < gt[i + 1].track

\* C21 witness: two records of one track at the same frame were exported to
\* one row for that frame, followed by the synthesised rows of the tail.
C21_Witness ==
    /\ Exported
    /\ Len(anns) = 2
    /\ anns[1].track_id = anns[2].track_id
    /\ anns[1].frame_number = anns[2].frame_number
    /\ Cardinality(Rows(anns[1].track_id, anns[1].frame_number)) = 1
    /\ Len(gt) > 1

RowFrames(t) == {gt[i].frame - 1 : i \in {j \in 1..Len(gt) : gt[j].track = t}}
SpanEnd(t) == SetMax({LastFrame(t)} \cup ClaimEndCandidates(t))
Continues(r) == ~MarkedOutside(r) /\ ~InterpolationDisabled(r)

----------------------------------------------------------------------------
(* MOT: the records densification produces.  The inputs are one track whose *)
(* records differ in keyframe, timestamp, ignored flag and in the way a     *)
(* hidden record is marked.                                                 *)

DenseKinds == {"plain", "ignored", "stamped", "derived"}

\* a record of each kind at a frame: authored without timestamp, the same
\* ignored, a Label Studio keyframe with timestamp and ignored, and a
\* non-keyframe record with timestamp
DenseAnn(frame, kind) ==
    LET meta == IF kind = "plain" THEN PlainMeta
                ELSE IF kind = "ignored" THEN [PlainMeta EXCEPT !.ignored = "True"]
                ELSE IF kind = "stamped" THEN [LsEnabledMeta EXCEPT !.ignored = "True"]
                ELSE [PlainMeta EXCEPT !.ignored = "False"]
        shape == ShapeAt(1, frame)
    IN  [IRVideoBBoxAnnotation(1, frame, shape.box, shape.vis, meta) EXCEPT
            !.keyframe = (kind # "derived"),
            !.timestamp = IF kind \in {"stamped", "derived"}
                          THEN Some(R(frame * frame)) ELSE None]

HiddenKinds == {"no", "flag", "visibility"}

\* a record that is visible, hidden by meta outside, or hidden by a
\* visibility of 0.0 alone
HiddenAnn(frame, hidden) ==
    IRVideoBBoxAnnotation(1, frame, BoxA,
        IF hidden = "no" THEN R(1) ELSE R(0),
        IF hidden = "flag" THEN CvatOutsideMeta ELSE PlainMeta)

InitMotDense ==
    /\ \E k \in 0..MaxLen, sl \in {None, Some(MaxSeqLength)} :
          /\ \/ \E p \in [1..k -> [frame : 0..MaxFrame, kind : DenseKinds]] :
                   anns = [i \in 1..k |-> DenseAnn(p[i].frame, p[i].kind)]
             \/ \E p \in [1..k -> [frame : 0..MaxFrame, hidden : HiddenKinds]] :
                   anns = [i \in 1..k |-> HiddenAnn(p[i].frame, p[i].hidden)]
          /\ ctx = [EmptyContext EXCEPT !.seq_length = sl]
    /\ ctx_in = ctx
    /\ gt = <<>>
    /\ gt_prev = <<>>
    /\ xml = <<>>
    /\ track_elem = None
    /\ seq_length_arg = None
    /\ ls = <<>>
    /\ orig = <<>>
    /\ trail = <<>>
    /\ size_arg = NoSize
    /\ video = None
    /\ converted = None
    /\ err = "none"

SpecMotDense == InitMotDense /\ [][NextMot]_vars

\* expanded_annotations of the call that wrote gt
Dense == SortedAnns(anns, ResolvedContext(anns, ctx_in, None))
MarkedIgnored(r) == r.meta.ignored = "True"
FrameBefore(t, f) == SetMax({a \in InFrames(t) : a < f})
FrameAfter(t, f) == SetMin({b \in InFrames(t) : b > f})
IsSynthesised(r) == r.frame_number \notin InFrames(r.track_id)
InGap(r) == r.frame_number < LastFrame(r.track_id)

\* C30: the rows are the densified records in order; a record at an input
\* frame keeps the keyframe value of the input record; a synthesised record
\* has keyframe false and no outside flag; a gap-filled one is marked
\* ignored iff both endpoint records are, and its timestamp is the linear
\* interpolation of the endpoints' timestamps when both have one, else None.
C30_SynthesisedRows ==
    Exported =>
        LET dense == Dense
        IN  /\ Len(dense) = Len(gt)
            /\ \A i \in 1..Len(dense) :
                  LET r == dense[i]
                      t == r.track_id
                      f == r.frame_number
                  IN  /\ gt[i].frame = f + 1
                      /\ gt[i].track = t
                      /\ ~IsSynthesised(r) => r.keyframe = InRec(t, f).keyframe
                      /\ IsSynthesised(r) =>
                            /\ r.keyframe = FALSE
                            /\ r.meta.outside = "absent"
                      /\ (IsSynthesised(r) /\ InGap(r)) =>
                            LET curr == InRec(t, FrameBefore(t, f))
                                nxt == InRec(t, FrameAfter(t, f))
                            IN  /\ MarkedIgnored(r)
                                      <=> (MarkedIgnored(curr) /\ MarkedIgnored(nxt))
                                /\ IF ~IsNone(curr.timestamp) /\ ~IsNone(nxt.timestamp)
                                   THEN /\ ~IsNone(r.timestamp)
                                        /\ LinEq(Val(r.timestamp), Val(curr.timestamp),
                                                 Val(nxt.timestamp), f - curr.frame_number,
                                                 nxt.frame_number - curr.frame_number)
                                   ELSE IsNone(r.timestamp)

\* C30 witness: an ignored keyframe with timestamp at frame 1 and a
\* non-keyframe record with timestamp, not ignored, at frame 4: the record
\* synthesised at frame 2 is no keyframe, not ignored, and has timestamp
\* 1 + (16 - 1) / 3 = 6; the record at frame 4 is still no keyframe.
C30_Witness ==
    /\ Exported
    /\ InFrames(1) = {1, 4}
    /\ MarkedIgnored(InRec(1, 1)) /\ InRec(1, 1).keyframe
    /\ ~MarkedIgnored(InRec(1, 4)) /\ ~InRec(1, 4).keyframe
    /\ LET dense == Dense
       IN  /\ Len(dense) >= 4
           /\ dense[2].frame_number = 2
           /\ ~dense[2].keyframe
           /\ ~MarkedIgnored(dense[2])
           /\ dense[2].timestamp = Some(R(6))
           /\ dense[4].frame_number = 4 /\ ~dense[4].keyframe

\* the records with every record of visibility 0.0 marked outside in meta
Flagged(records) ==
    [i \in 1..Len(records) |->
        IF records[i].visibility = R(0)
        THEN [records[i] EXCEPT !.meta.outside = "True"] ELSE records[i]]
FlaggedRows == export_to_mot(Flagged(anns), ctx_in, None).lines

\* C27: export_to_mot writes rows at the same frames of a track whether its
\* hidden records are marked by visibility 0.0 alone or by meta outside.
C27_HiddenSignalsEquivalent ==
    Exported =>
        \A t \in InTracks :
            RowFrames(t) = {FlaggedRows[i].frame - 1 :
                              i \in {j \in 1..Len(FlaggedRows) : FlaggedRows[j].track = t}}

\* s[-1]
Last(s) == s[Len(s)]

----------------------------------------------------------------------------
(* MOT: the line codec.  A line is the record of its nine fields, the       *)
(* numeric ones as the numbers their text denotes.                          *)

\* MOTContext.get_category_name: categories.get(class_id, default_category)
get_category_name(categories, class_id) ==
    LET hits == {i \in 1..Len(categories) : categories[i][1] = class_id}
    IN  IF hits # {} THEN categories[SetMin(hits)][2] ELSE "object"

\* variant: the not_ignored field is dropped
MetaNeverIgnored(not_ignored) == NoMeta

\* bbox.py lines 41-43: the meta of an imported record
ImportedMeta(not_ignored) ==
    IF not_ignored = 0 THEN [NoMeta EXCEPT !.ignored = "True"] ELSE NoMeta

\* context.image_width or 0
OrZero(dim) == IF IsNone(dim) THEN Some(0) ELSE dim

\* import_bbox_from_line(line, context): the record of one gt.txt row.  The
\* call passes no keyframe, so the record has the field's default.
import_bbox_from_line(line, context) ==
    [IRVideoBBoxAnnotation(
         line.track, line.frame - 1,
         [left |-> line.x, top |-> line.y, width |-> line.w, height |-> line.h],
         line.visibility, ImportedMeta(line.not_ignored))
     EXCEPT !.categories = {get_category_name(context.categories, line.class_id)},
            !.video_width = OrZero(context.image_width),
            !.video_height = OrZero(context.image_height)]

ImportBboxFromLine ==
    /\ err = "none"
    /\ Len(gt) = 1
    /\ Len(trail) < 2
    /\ IF trail = <<>> THEN TRUE ELSE Last(trail) = "export_bbox_to_line"
    /\ anns' = <<import_bbox_from_line(gt[1], ctx)>>
    /\ trail' = Append(trail, "import_bbox_from_line")
    /\ UNCHANGED <<size_arg, video, converted,
                   ctx, ctx_in, gt, gt_prev, xml, track_elem, seq_length_arg, ls, orig, err>>

ExportBboxToLine ==
    /\ err = "none"
    /\ Len(anns) = 1
    /\ Len(trail) < 2
    /\ IF trail = <<>> THEN TRUE ELSE Last(trail) = "import_bbox_from_line"
    /\ LET r == export_bbox_to_line(anns[1], ctx.categories)
       IN  /\ err' = r.err
           /\ ctx' = [ctx EXCEPT !.categories = r.categories]
           /\ gt' = IF r.err = "none" THEN <<Val(r.line)>> ELSE gt
    /\ ctx_in' = ctx
    /\ trail' = Append(trail, "export_bbox_to_line")
    /\ UNCHANGED <<size_arg, video, converted,
                   anns, gt_prev, xml, track_elem, seq_length_arg, ls, orig>>

----------------------------------------------------------------------------
(* CVAT video: the <track> codec.  A <track> element is [id, label, boxes]; *)
(* a <box> is its attributes, the numeric ones as the numbers their text    *)
(* denotes.                                                                 *)

\* the frame size handed to the CVAT parser
ImageSize == [width |-> 100, height |-> 50]

\* f"{x:.2f}" as float() reads it back: x rounded to hundredths, ties to even
Fmt2(x) ==
    LET num == x.n * 100
        q == num \div x.d
        rem == num % x.d
        up == 2 * rem > x.d \/ (2 * rem = x.d /\ q % 2 = 1)
    IN  Rat(IF up THEN q + 1 ELSE q, 100)

ParsedVisibility(outside, occluded) ==
    IF outside = 1 THEN R(0)
    ELSE IF occluded = 1 THEN Rat(1, 2)
    ELSE R(1)

parse_video_track(elem, image_width, image_height) ==
    [i \in 1..Len(elem.boxes) |->
        LET box_elem == elem.boxes[i]
        IN  [track_id |-> elem.id,
             frame_number |-> box_elem.frame,
             keyframe |-> box_elem.keyframe = 1,
             left |-> box_elem.xtl,
             top |-> box_elem.ytl,
             width |-> RSub(box_elem.xbr, box_elem.xtl),
             height |-> RSub(box_elem.ybr, box_elem.ytl),
             rotation |-> R(0),
             visibility |-> ParsedVisibility(box_elem.outside, box_elem.occluded),
             timestamp |-> None,
             coordinate_style |-> "DENORMALIZED",
             video_width |-> Some(image_width),
             video_height |-> Some(image_height),
             categories |-> {elem.label},
             meta |-> [NoMeta EXCEPT
                          !.z_order = Some(box_elem.z_order),
                          !.outside = IF box_elem.outside = 1 THEN "True" ELSE "False",
                          !.source_format = "cvat"]]]

\* a flag that is never raised
OutsideNeverSet(ann) == 0
\* outside = 1 if _coerce_bool_like(ann.meta.get("outside", False)) else 0
OutsideFlag(ann) ==
    IF ann.meta.outside # "absent" /\ _coerce_bool_like(ann.meta.outside) THEN 1 ELSE 0

\* occlusion read from the visibility alone
OccludedIgnoringOutside(outside, visibility) ==
    IF visibility.n < visibility.d THEN 1 ELSE 0
\* occluded = 1 if not outside and ann.visibility < 1.0
Occluded(outside, visibility) ==
    IF outside = 0 /\ RLt(visibility, R(1)) THEN 1 ELSE 0

\* the <box> of one record
BoxElem(ann0) ==
    LET ann == denormalized(ann0)
        outside == OutsideFlag(ann)
    IN  [frame |-> ann.frame_number,
         outside |-> outside,
         occluded |-> Occluded(outside, ann.visibility),
         keyframe |-> IF ann.keyframe THEN 1 ELSE 0,
         xtl |-> Fmt2(ann.left),
         ytl |-> Fmt2(ann.top),
         xbr |-> Fmt2(RAdd(ann.left, ann.width)),
         ybr |-> Fmt2(RAdd(ann.top, ann.height)),
         z_order |-> IF IsNone(ann.meta.z_order) THEN 0 ELSE Val(ann.meta.z_order)]

HasFutureAnnotation(sorted_anns, idx) ==
    \E j \in (idx + 1)..Len(sorted_anns) :
        sorted_anns[j].frame_number > sorted_anns[idx].frame_number

\* a successor that is never looked at
NextNeverOnBoundary(sorted_anns, idx) == FALSE
HasNextOnBoundary(sorted_anns, idx) ==
    /\ idx + 1 <= Len(sorted_anns)
    /\ sorted_anns[idx + 1].frame_number = sorted_anns[idx].frame_number + 1

MaxFrameCandidates(ann, seq_length) ==
    (IF ~IsNone(seq_length) /\ Val(seq_length) > 0
        THEN {Val(seq_length) - 1} ELSE {})
    \cup (IF ~IsNone(ann.meta.ls_frames_count) /\ Val(ann.meta.ls_frames_count) > 0
        THEN {Val(ann.meta.ls_frames_count) - 1} ELSE {})

\* variant: no bound is applied to the boundary frame
BoundaryUnbounded(ann, seq_length) == TRUE

CanAddBoundary(ann, seq_length) ==
    \/ MaxFrameCandidates(ann, seq_length) = {}
    \/ ann.frame_number + 1 <= SetMin(MaxFrameCandidates(ann, seq_length))

NeedsBoundary(sorted_anns, idx, seq_length) ==
    LET ann == sorted_anns[idx]
    IN  /\ ann.meta.ls_enabled # "absent"
        /\ ~_coerce_bool_like(ann.meta.ls_enabled)
        /\ OutsideFlag(ann) = 0
        /\ HasFutureAnnotation(sorted_anns, idx)
        /\ ~HasNextOnBoundary(sorted_anns, idx)
        /\ CanAddBoundary(ann, seq_length)

BoundaryElem(box_elem) ==
    [box_elem EXCEPT !.frame = @ + 1, !.outside = 1, !.occluded = 0, !.keyframe = 1]

RECURSIVE TrackBoxes(_, _, _)
TrackBoxes(sorted_anns, idx, seq_length) ==
    IF idx > Len(sorted_anns) THEN <<>>
    ELSE <<BoxElem(sorted_anns[idx])>>
         \o (IF NeedsBoundary(sorted_anns, idx, seq_length)
                THEN <<BoundaryElem(BoxElem(sorted_anns[idx]))>> ELSE <<>>)
         \o TrackBoxes(sorted_anns, idx + 1, seq_length)

\* Returns [err, elem]: ValueError on an empty list, MultipleCategoriesError
\* when the first record does not have exactly one category.
export_video_track_to_xml(track_id, annotations, seq_length) ==
    IF annotations = <<>>
    THEN [err |-> "ValueError", elem |-> None]
    ELSE IF ~has_one_category(annotations[1])
    THEN [err |-> "MultipleCategoriesError", elem |-> None]
    ELSE [err |-> "none",
          elem |-> Some([id |-> track_id,
                         label |-> CHOOSE c \in annotations[1].categories : TRUE,
                         boxes |-> TrackBoxes(SortedBy("frame", annotations), 1,
                                              seq_length)])]

ExportVideoTrackToXml ==
    /\ err = "none"
    /\ Len(trail) < 3
    /\ IF trail = <<>> THEN TRUE ELSE Last(trail) = "parse_video_track"
    /\ LET r == export_video_track_to_xml(
                    IF anns = <<>> THEN 1 ELSE anns[1].track_id, anns, seq_length_arg)
       IN  /\ err' = r.err
           /\ track_elem' = IF r.err = "none" THEN r.elem ELSE track_elem
    /\ trail' = Append(trail, "export_video_track_to_xml")
    /\ UNCHANGED <<size_arg, video, converted,
                   anns, ctx, ctx_in, gt, gt_prev, xml, seq_length_arg, ls, orig>>

ParseVideoTrack ==
    /\ err = "none"
    /\ Len(trail) < 3
    /\ ~IsNone(track_elem)
    /\ IF trail = <<>> THEN TRUE ELSE Last(trail) = "export_video_track_to_xml"
    /\ anns' = parse_video_track(Val(track_elem), ImageSize.width, ImageSize.height)
    /\ trail' = Append(trail, "parse_video_track")
    /\ UNCHANGED <<size_arg, video, converted,
                   ctx, ctx_in, gt, gt_prev, xml, track_elem, seq_length_arg, ls, orig,
                   err>>

----------------------------------------------------------------------------
(* Inputs of the CVAT track runs *)

\* a <box> as an annotation tool writes it
XmlBox(proto, pattern, i) ==
    LET box == ShapeAt(pattern, i).box
    IN  [frame |-> proto.frame, outside |-> proto.outside, occluded |-> proto.occluded,
         keyframe |-> IF (i * pattern) % 2 = 0 THEN 1 ELSE 0,
         xtl |-> box.left, ytl |-> box.top,
         xbr |-> RAdd(box.left, box.width), ybr |-> RAdd(box.top, box.height),
         z_order |-> pattern]

\* the forms a caller's meta outside takes
OutsideForms ==
    {"absent", "True", "False", "i1", "i0", "s:true", "s:false", "s:yes", "s:"}

\* a record in normalized coordinates, a third of the frame wide
ThirdsAnn(frame, outside, vis) ==
    [IRVideoBBoxAnnotation(1, frame,
         [left |-> Rat(1, 3), top |-> Rat(1, 8), width |-> Rat(1, 3), height |-> Rat(1, 2)],
         vis, [NoMeta EXCEPT !.outside = outside])
     EXCEPT !.coordinate_style = "NORMALIZED"]

BoundaryMetas == {LsEnabledMeta, LsDisabledMeta, LsOutsideMeta}
BoundedMetas ==
    {PlainMeta, LsDisabledMeta,
     [LsDisabledMeta EXCEPT !.ls_frames_count = Some(3)],
     [LsDisabledMeta EXCEPT !.ls_enabled = "s:false"],
     [LsDisabledMeta EXCEPT !.ls_enabled = "i0"]}

\* Either an XML track to be parsed, or IR records to be exported: Label
\* Studio records of one track (up to MaxBoxes of them, frames repeated or
\* not), such records under each seq_length argument, and records whose meta
\* outside takes every form.
InitCvat ==
    /\ \/ \E k \in 0..MaxLen :
            \E p \in [1..k -> [frame : 0..MaxFrame, outside : {0, 1}, occluded : {0, 1}]],
               pattern \in {0, 1} :
                /\ track_elem = Some([id |-> 1, label |-> "person",
                                      boxes |-> [i \in 1..k |-> XmlBox(p[i], pattern, i)]])
                /\ anns = <<>>
                /\ seq_length_arg = None
       \/ \E k \in 0..MaxBoxes :
            \E p \in [1..k -> [track : {1}, frame : 0..MaxBoxes, meta : BoundaryMetas]] :
                /\ track_elem = None
                /\ anns = MakeAnns(p, 0)
                /\ seq_length_arg = None
       \/ \E k \in 0..MaxLen :
            \E p \in [1..k -> Protos({1}, BoundedMetas)],
               sl \in {None, Some(0), Some(2), Some(MaxSeqLength)} :
                /\ track_elem = None
                /\ anns = MakeAnns(p, 1)
                /\ seq_length_arg = sl
       \/ \E k \in 0..MaxLen :
            \E p \in [1..k -> [outside : OutsideForms, vis : {R(0), Rat(1, 2), R(1)}]] :
                /\ track_elem = None
                /\ anns = [i \in 1..k |-> ThirdsAnn(i - 1, p[i].outside, p[i].vis)]
                /\ seq_length_arg = None
    /\ orig = track_elem
    /\ ctx = EmptyContext
    /\ ctx_in = ctx
    /\ gt = <<>>
    /\ gt_prev = <<>>
    /\ xml = <<>>
    /\ ls = <<>>
    /\ trail = <<>>
    /\ size_arg = NoSize
    /\ video = None
    /\ converted = None
    /\ err = "none"

NextCvat == ExportVideoTrackToXml \/ ParseVideoTrack

SpecCvat == InitCvat /\ [][NextCvat]_vars

----------------------------------------------------------------------------
(* Properties of the CVAT track codec.  After a successful export the       *)
(* caller's records are still in anns and the element is in track_elem.     *)

TrackExported ==
    trail # <<>> /\ Last(trail) = "export_video_track_to_xml" /\ err = "none"
OutBoxes == Val(track_elem).boxes
\* the caller's records by frame, records of one frame in input order
ByFrame == SortedBy("frame", anns)
DisabledExplicitly(r) ==
    r.meta.ls_enabled \in {"False", "i0"} \cup FalseStrings
CoercedOutside(r) ==
    r.meta.outside \in {"True", "i1"} \cup TrueStrings
KnownBounds(r) ==
    (IF ~IsNone(seq_length_arg) /\ Val(seq_length_arg) > 0
        THEN {Val(seq_length_arg) - 1} ELSE {})
    \cup (IF ~IsNone(r.meta.ls_frames_count) /\ Val(r.meta.ls_frames_count) > 0
        THEN {Val(r.meta.ls_frames_count) - 1} ELSE {})
\* the condition under which the record ByFrame[i] is followed by a boundary box
BoundaryDue(i) ==
    /\ DisabledExplicitly(ByFrame[i])
    /\ ~CoercedOutside(ByFrame[i])
    /\ \E j \in 1..Len(ByFrame) : ByFrame[j].frame_number > ByFrame[i].frame_number
    /\ ~(i < Len(ByFrame) /\ ByFrame[i + 1].frame_number = ByFrame[i].frame_number + 1)
    /\ \A m \in KnownBounds(ByFrame[i]) : ByFrame[i].frame_number + 1 <= m
\* where the box of ByFrame[i] stands among the emitted boxes
BoxPos(i) == i + Cardinality({j \in 1..(i - 1) : BoundaryDue(j)})
FramesDistinct ==
    \A i, j \in 1..Len(anns) : i # j => anns[i].frame_number # anns[j].frame_number
BoxesAscending ==
    \A i \in 1..(Len(OutBoxes) - 1) : OutBoxes[i].frame <= OutBoxes[i + 1].frame

C5_BoxPerRecordPlusBoundaries ==
    /\ Len(OutBoxes) = Len(anns) + Cardinality({i \in 1..Len(anns) : BoundaryDue(i)})
    /\ \A i \in 1..Len(anns) :
          /\ OutBoxes[BoxPos(i)].frame = ByFrame[i].frame_number
          /\ BoundaryDue(i) =>
                /\ OutBoxes[BoxPos(i) + 1].frame = ByFrame[i].frame_number + 1
                /\ OutBoxes[BoxPos(i) + 1].outside = 1
                /\ OutBoxes[BoxPos(i) + 1].keyframe = 1
    /\ ~BoundaryDue(Len(anns))
    /\ (\A i \in 1..Len(anns) : ~DisabledExplicitly(anns[i]))
          => Len(OutBoxes) = Len(anns)

\* C5: export_video_track_to_xml emits one <box> per record, the records'
\* boxes in ascending frame order with their frames unshifted, and a boundary
\* box (frame f+1, outside 1, keyframe 1) immediately after the box of a
\* record at frame f exactly when that record has ls_enabled explicitly
\* false, is not outside, has a later record in the track, is not followed by
\* a record at f+1, and f+1 is within every known bound; the whole list of
\* boxes is in ascending frame order when the records' frames are distinct.
C5_TrackExport ==
    TrackExported =>
        /\ C5_BoxPerRecordPlusBoundaries
        /\ FramesDistinct => BoxesAscending

\* C5 as stated: the emitted boxes are in ascending frame order for every
\* input list.
C5_AsStated ==
    TrackExported => (C5_BoxPerRecordPlusBoundaries /\ BoxesAscending)

\* C5 witness: a disabled record at frame 0 followed by a record at frame 2
\* gets a boundary box at frame 1; the disabled record at frame 2, the last
\* one, gets none.
C5_Witness ==
    /\ TrackExported
    /\ Len(anns) = 2
    /\ anns[1].frame_number = 2
    /\ anns[2].frame_number = 0
    /\ \A i \in 1..2 : DisabledExplicitly(anns[i]) /\ ~CoercedOutside(anns[i])
    /\ Len(OutBoxes) = 3
    /\ OutBoxes[1].frame = 0 /\ OutBoxes[1].outside = 0
    /\ OutBoxes[2].frame = 1 /\ OutBoxes[2].outside = 1 /\ OutBoxes[2].keyframe = 1
    /\ OutBoxes[3].frame = 2 /\ OutBoxes[3].outside = 0

\* the (visibility, meta outside) pairs of the records at frame f, in order
SeenAt(records, f) ==
    LET at == SelectSeq(records, LAMBDA r : r.frame_number = f)
    IN  [i \in 1..Len(at) |-> <<at[i].visibility, at[i].meta.outside>>]
FirstImport == parse_video_track(Val(orig), ImageSize.width, ImageSize.height)
ReImported ==
    /\ trail = <<"parse_video_track", "export_video_track_to_xml", "parse_video_track">>
    /\ err = "none"

\* C9: a track parsed by parse_video_track, exported by
\* export_video_track_to_xml and parsed again has, at every frame, the same
\* visibility and the same meta outside as the first import, and as many
\* records.
C9_OutsideRoundTrip ==
    ReImported =>
        /\ Len(anns) = Len(FirstImport)
        /\ \A f \in 0..MaxFrame : SeenAt(anns, f) = SeenAt(FirstImport, f)
        /\ \A i \in 1..Len(anns) :
              /\ anns[i].visibility \in {R(0), Rat(1, 2), R(1)}
              /\ anns[i].frame_number \in 0..MaxFrame

\* C9 witness: an occluded box at frame 1 and a box both outside and occluded
\* at frame 0, given in that order, come back as visibility 0.0 / outside at
\* frame 0 and visibility 0.5 at frame 1.
C9_Witness ==
    /\ ReImported
    /\ Len(Val(orig).boxes) = 2
    /\ Val(orig).boxes[1].frame = 1
    /\ Val(orig).boxes[1].occluded = 1 /\ Val(orig).boxes[1].outside = 0
    /\ Val(orig).boxes[2].frame = 0
    /\ Val(orig).boxes[2].occluded = 1 /\ Val(orig).boxes[2].outside = 1
    /\ SeenAt(anns, 0) = << <<R(0), "True">> >>
    /\ SeenAt(anns, 1) = << <<Rat(1, 2), "False">> >>

\* C10: in every <box> export_video_track_to_xml emits, boundary boxes
\* included, occluded is not 1 when outside is 1; the box of a record has
\* occluded 1 exactly when the record is not outside and its visibility is
\* below 1.0, and outside 1 exactly when its meta outside, as a bool, an int
\* or a string, is true.
C10_OccludedExcludesOutside ==
    TrackExported =>
        /\ \A b \in 1..Len(OutBoxes) :
              ~(OutBoxes[b].outside = 1 /\ OutBoxes[b].occluded = 1)
        /\ \A i \in 1..Len(anns) :
              /\ OutBoxes[BoxPos(i)].outside = 1 <=> CoercedOutside(ByFrame[i])
              /\ OutBoxes[BoxPos(i)].occluded = 1
                    <=> (~CoercedOutside(ByFrame[i])
                         /\ RLt(ByFrame[i].visibility, R(1)))

\* C10 witness: a half-visible record marked outside by the string "yes" is
\* exported outside and not occluded; a half-visible record whose outside is
\* the empty string is exported occluded.
C10_Witness ==
    /\ TrackExported
    /\ Len(anns) = 2
    /\ anns[1].meta.outside = "s:yes" /\ anns[1].visibility = Rat(1, 2)
    /\ anns[2].meta.outside = "s:" /\ anns[2].visibility = Rat(1, 2)
    /\ OutBoxes[1].outside = 1 /\ OutBoxes[1].occluded = 0
    /\ OutBoxes[2].outside = 0 /\ OutBoxes[2].occluded = 1
    /\ OutBoxes[1].xtl = Rat(3333, 100)

AuthoredFrames == {anns[i].frame_number : i \in 1..Len(anns)}
RecordAt(f) == anns[CHOOSE i \in 1..Len(anns) : anns[i].frame_number = f]
BoundaryBoxes == {b \in 1..Len(OutBoxes) : OutBoxes[b].frame \notin AuthoredFrames}

\* C29: when the records of a track have pairwise distinct frames, the boxes
\* export_video_track_to_xml emits have strictly increasing frames; every box
\* beyond the one per record stands off the authored frames, one frame after
\* the box of a record, before the frame of the next record, and within
\* every known bound (seq_length - 1, the record's ls_frames_count - 1).
C29_BoxFramesStrictlyIncreasing ==
    (TrackExported /\ FramesDistinct) =>
        /\ \A b \in 1..(Len(OutBoxes) - 1) : OutBoxes[b].frame < OutBoxes[b + 1].frame
        /\ Len(OutBoxes) = Len(anns) + Cardinality(BoundaryBoxes)
        /\ \A b \in BoundaryBoxes :
              /\ 1 < b /\ b < Len(OutBoxes)
              /\ OutBoxes[b - 1].frame \in AuthoredFrames
              /\ OutBoxes[b + 1].frame \in AuthoredFrames
              /\ OutBoxes[b].frame = OutBoxes[b - 1].frame + 1
              /\ OutBoxes[b].frame < OutBoxes[b + 1].frame
              /\ \A m \in KnownBounds(RecordAt(OutBoxes[b - 1].frame)) :
                    OutBoxes[b].frame <= m

\* C29 witness: three records with distinct frames, given out of frame order,
\* were exported with one boundary box among their boxes.
C29_Witness ==
    /\ TrackExported
    /\ FramesDistinct
    /\ Len(anns) = 3
    /\ anns[1].frame_number > anns[2].frame_number
    /\ Len(OutBoxes) = 4
    /\ Cardinality(BoundaryBoxes) = 1

----------------------------------------------------------------------------
(* CVAT video: the document.  It is [size, width, height, tracks], the      *)
(* <meta><task> size and original_size and the <track> elements in order.   *)

FirstValidDim(annotations, field) ==
    LET valid == {i \in 1..Len(annotations) :
                     ~IsNone(annotations[i][field]) /\ Val(annotations[i][field]) > 0}
    IN  IF valid = {} THEN None ELSE annotations[SetMin(valid)][field]

PreparedAnnotations(annotations, resolved_width, resolved_height) ==
    [i \in 1..Len(annotations) |->
        [annotations[i] EXCEPT
            !.video_width = IF IsNone(@) \/ Val(@) <= 0 THEN resolved_width ELSE @,
            !.video_height = IF IsNone(@) \/ Val(@) <= 0 THEN resolved_height ELSE @]]

ResolvedSeqLength(annotations, seq_length) ==
    IF annotations = <<>> THEN (IF IsNone(seq_length) \/ Val(seq_length) = 0 THEN 1
                                ELSE Val(seq_length))
    ELSE IF ~IsNone(seq_length) THEN Val(seq_length)
    ELSE SetMax({annotations[i].frame_number + 1 : i \in 1..Len(annotations)}
                \cup {Val(annotations[i].meta.ls_frames_count) :
                        i \in {j \in 1..Len(annotations) :
                                 /\ ~IsNone(annotations[j].meta.ls_frames_count)
                                 /\ Val(annotations[j].meta.ls_frames_count) > 0}})

\* Returns [err, doc]; one <track> per track id in ascending id order.
build_cvat_video_xml(annotations, image_width, image_height, seq_length) ==
    LET size == ResolvedSeqLength(annotations, seq_length)
        ids == SetToSortedSeq(TrackIds(annotations))
        tracks == [k \in 1..Len(ids) |->
                     export_video_track_to_xml(
                         ids[k], TrackOf(annotations, ids[k]), Some(size))]
    IN  IF \E i \in 1..Len(annotations) : ~has_one_category(annotations[i])
        THEN [err |-> "MultipleCategoriesError", doc |-> None]
        ELSE [err |-> "none",
              doc |-> Some([size |-> size,
                            width |-> IF annotations = <<>> /\ IsNone(image_width)
                                      THEN 1920 ELSE Val(image_width),
                            height |-> IF annotations = <<>> /\ IsNone(image_height)
                                       THEN 1080 ELSE Val(image_height),
                            tracks |-> [k \in 1..Len(ids) |-> Val(tracks[k].elem)]])]

\* resolved_width / resolved_height before the probe: the argument when it
\* is positive, else the first positive dimension of an annotation
ArgOrFirstValidDim(annotations, arg, field) ==
    IF ~IsNone(arg) /\ Val(arg) > 0 THEN arg ELSE FirstValidDim(annotations, field)

\* the caller's records after the export: a record is copied when a
\* dimension is filled in and when it is denormalized for its <box>
AnnotationsAfterCvat(annotations, prepared, exported) ==
    [i \in 1..Len(annotations) |->
        MadeOnCopy(annotations[i],
                   IF exported THEN denormalized(prepared[i]) ELSE prepared[i])]

\* Returns [err, doc, annotations].  get_video_dimensions raises ValueError
\* for a file no probe can read; get_video_frame_count returns None for it.
export_cvat_video_to_xml_string(annotations, image_width, image_height, seq_length, video_file) ==
    LET w1 == ArgOrFirstValidDim(annotations, image_width, "video_width")
        h1 == ArgOrFirstValidDim(annotations, image_height, "video_height")
        probe == (IsNone(w1) \/ IsNone(h1)) /\ ~IsNone(video_file)
        resolved_width == IF probe /\ IsNone(w1) THEN Some(Val(video_file).width) ELSE w1
        resolved_height == IF probe /\ IsNone(h1) THEN Some(Val(video_file).height) ELSE h1
        frame_count == IF ~IsNone(video_file) /\ Val(video_file).readable
                       THEN Val(video_file).frame_count ELSE None
        length == IF IsNone(seq_length) /\ ~IsNone(frame_count) /\ Val(frame_count) > 0
                  THEN frame_count ELSE seq_length
        prepared == PreparedAnnotations(annotations, resolved_width, resolved_height)
        built == build_cvat_video_xml(prepared, resolved_width, resolved_height, length)
    IN  IF (probe /\ ~Val(video_file).readable)
           \/ IsNone(resolved_width) \/ IsNone(resolved_height)
        THEN [err |-> "ValueError", doc |-> None, annotations |-> annotations]
        ELSE [err |-> built.err, doc |-> built.doc,
              annotations |-> AnnotationsAfterCvat(annotations, prepared,
                                                   built.err = "none")]

\* the frame -> records dict of _parse_video_mode, listed value by value: the
\* frames in order of first appearance, the records of a frame in parse order
RECURSIVE DictValues(_, _)
DictValues(all, seen) ==
    IF all = <<>> THEN <<>>
    ELSE IF Head(all).frame_number \in seen THEN DictValues(Tail(all), seen)
    ELSE SelectSeq(all, LAMBDA a : a.frame_number = Head(all).frame_number)
         \o DictValues(Tail(all), seen \cup {Head(all).frame_number})

\* called without image_width and image_height
load_cvat_from_xml_string(doc) ==
    DictValues(
        Concat([k \in 1..Len(doc.tracks) |->
                   parse_video_track(doc.tracks[k], doc.width, doc.height)]),
        {})

----------------------------------------------------------------------------
(* Label Studio: the VideoRectangle codec.  A VideoRectangleAnnotation is   *)
(* [id, original_width, original_height, sequence, labels, framesCount,     *)
(* original_track_id]; a sequence item carries its extension fields outside *)
(* (a meta tag) and visibility (optional).                                  *)

\* int(md5(id).hexdigest()[:8], 16) % 2^31, for the ids of the model
Md5TrackId(id) == IF id = "track_sparse" THEN 426359248 ELSE 840747347

TrackLsId(track_id) == "track_" \o ToString(track_id)

PercentOk(v) == RLe(R(0), v) /\ RLe(v, R(100))

\* variant: the track id is always derived from the annotation id
TrackIdFromLsId(self) == Md5TrackId(self.id)

\* lines 97-101: meta original_track_id when present, else the md5 of the id
RectTrackId(self) ==
    IF ~IsNone(self.original_track_id) THEN Val(self.original_track_id)
    ELSE Md5TrackId(self.id)

\* variant: frames are always read as 1-based
FrameBaseAlwaysOne(sequence) == 1

\* line 105: 0 if any item has frame 0, else 1
FrameBase(sequence) ==
    IF \E i \in 1..Len(sequence) : sequence[i].frame = 0 THEN 0 ELSE 1

\* variant: the visibility field of the item is not read
VisibilityFromOutsideOnly(outside, visibility_extra) == IF outside THEN R(0) ELSE R(1)

\* lines 126-129: visibility_extra is the item's visibility field as
\* _coerce_float_like reads it, None when absent or not a number
ItemVisibility(outside, visibility_extra) ==
    IF ~IsNone(visibility_extra) THEN Val(visibility_extra)
    ELSE IF outside THEN R(0) ELSE R(1)

\* Returns [err, annotations].
to_ir_annotations(self) ==
    LET track_id == RectTrackId(self)
        label == IF self.labels # <<>> THEN self.labels[1] ELSE "object"
        sequence == self.sequence
        frame_base == FrameBase(sequence)
        bad(seq_item) ==
            \/ seq_item.frame < frame_base
            \/ ~(PercentOk(seq_item.x) /\ PercentOk(seq_item.y)
                 /\ PercentOk(seq_item.width) /\ PercentOk(seq_item.height))
        record(seq_item) ==
            LET outside == IF seq_item.outside # "absent"
                           THEN _coerce_bool_like(seq_item.outside) ELSE FALSE
            IN  [track_id |-> track_id,
                 frame_number |-> seq_item.frame - frame_base,
                 keyframe |-> TRUE,
                 left |-> RDiv(seq_item.x, R(100)),
                 top |-> RDiv(seq_item.y, R(100)),
                 width |-> RDiv(seq_item.width, R(100)),
                 height |-> RDiv(seq_item.height, R(100)),
                 rotation |-> seq_item.rotation,
                 visibility |-> ItemVisibility(outside, seq_item.visibility),
                 timestamp |-> seq_item.time,
                 coordinate_style |-> "NORMALIZED",
                 video_width |-> self.original_width,
                 video_height |-> self.original_height,
                 categories |-> {label},
                 meta |-> [NoMeta EXCEPT
                              !.ls_id = self.id,
                              !.outside = IF outside THEN "True" ELSE "False",
                              !.ls_enabled = IF seq_item.enabled THEN "True" ELSE "False",
                              !.ls_frames_count =
                                  IF ~IsNone(self.framesCount) /\ Val(self.framesCount) > 0
                                  THEN self.framesCount ELSE None]]
    IN  IF \E i \in 1..Len(sequence) : bad(sequence[i])
        THEN [err |-> "ValueError", annotations |-> <<>>]
        ELSE [err |-> "none",
              annotations |-> [i \in 1..Len(sequence) |-> record(sequence[i])]]

\* outside read from the meta flag alone
OutsideFromMetaOnly(ann) ==
    ann.meta.outside # "absent" /\ _coerce_bool_like(ann.meta.outside)
\* _coerce_bool_like(ann.meta.get("outside", ann.visibility <= 0.0))
IsOutsideForLs(ann) ==
    IF ann.meta.outside = "absent" THEN RLe(ann.visibility, R(0))
    ELSE _coerce_bool_like(ann.meta.outside)

IsMotSource(sorted_anns) ==
    \E i \in 1..Len(sorted_anns) : sorted_anns[i].meta.source_format = "mot"
IsCvatSource(sorted_anns) ==
    \E i \in 1..Len(sorted_anns) : sorted_anns[i].meta.source_format = "cvat"

\* a flag derived as for a CVAT track whatever the source
EnabledAsForCvat(sorted_anns, idx) ==
    \/ idx = Len(sorted_anns)
    \/ /\ ~IsOutsideForLs(sorted_anns[idx + 1])
       /\ ~(/\ sorted_anns[idx + 1].frame_number = sorted_anns[idx].frame_number + 1
            /\ sorted_anns[idx].keyframe
            /\ sorted_anns[idx + 1].keyframe)
\* the enabled flag of a visible record without ls_enabled in a non-MOT track
DerivedEnabled(sorted_anns, idx) ==
    LET ann == sorted_anns[idx]
        is_cvat_source == IsCvatSource(sorted_anns)
    IN  IF idx = Len(sorted_anns) THEN is_cvat_source
        ELSE LET next_ann == sorted_anns[idx + 1]
                 next_is_outside == IsOutsideForLs(next_ann)
             IN  IF is_cvat_source
                 THEN IF next_is_outside THEN FALSE
                      ELSE IF /\ next_ann.frame_number = ann.frame_number + 1
                              /\ ann.keyframe
                              /\ next_ann.keyframe
                           THEN FALSE
                      ELSE TRUE
                 ELSE ~next_is_outside

EnabledOf(sorted_anns, idx) ==
    LET ann == sorted_anns[idx]
    IN  IF ann.meta.ls_enabled # "absent" THEN _coerce_bool_like(ann.meta.ls_enabled)
        ELSE IF IsMotSource(sorted_anns) THEN FALSE
        ELSE DerivedEnabled(sorted_anns, idx)

\* variant: the frame number is carried over as it is
LsFrameUnshifted(frame_number) == frame_number

\* frame=ann.frame_number + 1
LsFrame(frame_number) == frame_number + 1

SequenceItem(ann0, enabled, is_outside) ==
    LET ann == normalized(ann0)
    IN  [frame |-> LsFrame(ann.frame_number),
         x |-> RMul(ann.left, R(100)),
         y |-> RMul(ann.top, R(100)),
         width |-> RMul(ann.width, R(100)),
         height |-> RMul(ann.height, R(100)),
         rotation |-> ann.rotation,
         enabled |-> enabled,
         time |-> ann.timestamp,
         outside |-> IF is_outside THEN "True" ELSE "absent",
         visibility |-> IF is_outside THEN Some(ann.visibility) ELSE None]

\* variant: an outside record always becomes an item
NeverSkipsOutside(sorted_anns, seen_visible) == FALSE

\* lines 194-196: an outside record of a CVAT track is passed over once a
\* visible record has been seen
SkipsOutside(sorted_anns, seen_visible) == IsCvatSource(sorted_anns) /\ seen_visible

RECURSIVE LsSequence(_, _, _)
LsSequence(sorted_anns, idx, seen_visible) ==
    IF idx > Len(sorted_anns) THEN <<>>
    ELSE IF IsOutsideForLs(sorted_anns[idx])
    THEN (IF SkipsOutside(sorted_anns, seen_visible) THEN <<>>
          ELSE <<SequenceItem(sorted_anns[idx], FALSE, TRUE)>>)
         \o LsSequence(sorted_anns, idx + 1, seen_visible)
    ELSE <<SequenceItem(sorted_anns[idx], EnabledOf(sorted_anns, idx), FALSE)>>
         \o LsSequence(sorted_anns, idx + 1, TRUE)

\* the first record, in frame order, whose normalized() raises
FirstNotNormalizable(sorted_anns) ==
    LET failing == {i \in 1..Len(sorted_anns) : NormalizeError(sorted_anns[i]) # "none"}
    IN  IF failing = {} THEN None ELSE Some(sorted_anns[SetMin(failing)])

\* Returns [err, rect, annotations]: the exception, the track built, and the
\* caller's records as the call leaves them (ann = ann.normalized() works on
\* a copy).
from_ir_annotations(ir_annotations) ==
    IF \/ ir_annotations = <<>>
       \/ \E i \in 1..Len(ir_annotations) :
             ir_annotations[i].track_id # ir_annotations[1].track_id
    THEN [err |-> "ValueError", rect |-> None, annotations |-> ir_annotations]
    ELSE IF ~has_one_category(ir_annotations[1])
    THEN [err |-> "MultipleCategoriesError", rect |-> None, annotations |-> ir_annotations]
    ELSE LET first == ir_annotations[1]
             sorted_anns == SortedBy("frame", ir_annotations)
             failing == FirstNotNormalizable(sorted_anns)
             frames_count_values ==
                 {Val(sorted_anns[i].meta.ls_frames_count) :
                     i \in {j \in 1..Len(sorted_anns) :
                              ~IsNone(sorted_anns[j].meta.ls_frames_count)}}
         IN  IF ~IsNone(failing)
             THEN [err |-> NormalizeError(Val(failing)), rect |-> None,
                   annotations |-> ir_annotations]
             ELSE
             [err |-> "none",
              rect |-> Some(
                 [id |-> IF first.meta.ls_id # "absent" THEN first.meta.ls_id
                         ELSE TrackLsId(first.track_id),
                  original_width |-> first.video_width,
                  original_height |-> first.video_height,
                  sequence |-> LsSequence(sorted_anns, 1, FALSE),
                  labels |-> <<CHOOSE c \in first.categories : TRUE>>,
                  framesCount |-> IF frames_count_values = {} THEN None
                                  ELSE Some(SetMax(frames_count_values)),
                  original_track_id |-> Some(first.track_id)]),
              annotations |-> [i \in 1..Len(ir_annotations) |->
                                  MadeOnCopy(ir_annotations[i],
                                             normalized(ir_annotations[i]))]]

\* Returns [err, rects, annotations]: the result list of the single task, or
\* no task, and the caller's records as the call leaves them.
video_ir_to_ls_video_tasks(annotations) ==
    LET ids == SetToSortedSeq(TrackIds(annotations))
        rects == [k \in 1..Len(ids) |-> from_ir_annotations(TrackOf(annotations, ids[k]))]
        failed == {k \in 1..Len(ids) : rects[k].err # "none"}
    IN  IF failed # {}
        THEN [err |-> rects[SetMin(failed)].err, rects |-> <<>>,
              annotations |-> annotations]
        ELSE [err |-> "none", rects |-> [k \in 1..Len(ids) |-> Val(rects[k].rect)],
              annotations |-> [i \in 1..Len(annotations) |->
                                  MadeOnCopy(annotations[i], normalized(annotations[i]))]]

\* ls_video_task_to_video_ir(task), the task given by its result list:
\* Returns [err, annotations].
ls_video_task_to_video_ir(rects) ==
    LET parts == [k \in 1..Len(rects) |-> to_ir_annotations(rects[k])]
    IN  IF \E k \in 1..Len(rects) : parts[k].err # "none"
        THEN [err |-> "ValueError", annotations |-> <<>>]
        ELSE [err |-> "none",
              annotations |-> Concat([k \in 1..Len(rects) |-> parts[k].annotations])]

ToIrAnnotations ==
    /\ err = "none"
    /\ trail = <<>>
    /\ Len(ls) = 1
    /\ LET r == to_ir_annotations(ls[1])
       IN  /\ err' = r.err
           /\ anns' = IF r.err = "none" THEN r.annotations ELSE anns
    /\ trail' = Append(trail, "to_ir_annotations")
    /\ UNCHANGED <<size_arg, video, converted,
                   ctx, ctx_in, gt, gt_prev, xml, track_elem, seq_length_arg, ls, orig>>

\* after to_ir_annotations, or after an export_to_mot of the same records,
\* whether that one raised or not
ExportCvatVideoToXmlString ==
    /\ trail # <<>>
    /\ \/ Last(trail) = "to_ir_annotations" /\ err = "none"
       \/ Last(trail) = "export_to_mot"
    /\ LET r == export_cvat_video_to_xml_string(
                    anns, size_arg.image_width, size_arg.image_height, seq_length_arg,
                    video)
       IN  /\ err' = r.err
           /\ xml' = IF r.err = "none" THEN r.doc ELSE xml
           /\ anns' = r.annotations
    /\ trail' = Append(trail, "export_cvat_video_to_xml_string")
    /\ UNCHANGED <<size_arg, video, converted,
                   ctx, ctx_in, gt, gt_prev, track_elem, seq_length_arg, ls, orig>>

LoadCvatFromXmlString ==
    /\ err = "none"
    /\ IF trail = <<>> THEN ~IsNone(xml)
       ELSE Last(trail) = "export_cvat_video_to_xml_string"
    /\ anns' = load_cvat_from_xml_string(Val(xml))
    /\ trail' = Append(trail, "load_cvat_from_xml_string")
    /\ UNCHANGED <<size_arg, video, converted,
                   ctx, ctx_in, gt, gt_prev, xml, track_elem, seq_length_arg, ls, orig,
                   err>>

VideoIrToLsVideoTasks ==
    /\ err = "none"
    /\ IF trail = <<>> THEN ls = <<>>
       ELSE Last(trail) \in {"load_cvat_from_xml_string", "load_mot_from_file"}
    /\ LET r == video_ir_to_ls_video_tasks(anns)
       IN  /\ err' = r.err
           /\ ls' = IF r.err = "none" THEN r.rects ELSE ls
           /\ anns' = r.annotations
    /\ trail' = Append(trail, "video_ir_to_ls_video_tasks")
    /\ UNCHANGED <<size_arg, video, converted,
                   ctx, ctx_in, gt, gt_prev, xml, track_elem, seq_length_arg, orig>>

FromIrAnnotations ==
    /\ err = "none"
    /\ trail = <<>>
    /\ ls = <<>>
    /\ LET r == from_ir_annotations(anns)
       IN  /\ err' = r.err
           /\ ls' = IF r.err = "none" THEN <<Val(r.rect)>> ELSE ls
           /\ anns' = r.annotations
    /\ trail' = Append(trail, "from_ir_annotations")
    /\ UNCHANGED <<size_arg, video, converted,
                   ctx, ctx_in, gt, gt_prev, xml, track_elem, seq_length_arg, orig>>

\* the task that video_ir_to_ls_video_tasks returned, converted back
LsVideoTaskToVideoIr ==
    /\ err = "none"
    /\ trail # <<>>
    /\ Last(trail) = "video_ir_to_ls_video_tasks"
    /\ ls # <<>>
    /\ LET r == ls_video_task_to_video_ir(ls)
       IN  /\ err' = r.err
           /\ anns' = IF r.err = "none" THEN r.annotations ELSE anns
    /\ trail' = Append(trail, "ls_video_task_to_video_ir")
    /\ UNCHANGED <<size_arg, video, converted,
                   ctx, ctx_in, gt, gt_prev, xml, track_elem, seq_length_arg, ls, orig>>

----------------------------------------------------------------------------
(* Inputs of the Label Studio runs *)

\* a sequence item as Label Studio writes it, with or without the outside
\* extension field
LsItem(frame, enabled, outside) ==
    [frame |-> frame, x |-> R(10), y |-> R(20), width |-> R(5), height |-> R(10),
     rotation |-> R(0), enabled |-> enabled, time |-> None, outside |-> outside,
     visibility |-> None]

LsRect(sequence, framesCount, original_track_id) ==
    [id |-> "track_sparse", original_width |-> Some(ImageSize.width),
     original_height |-> Some(ImageSize.height), sequence |-> sequence,
     labels |-> <<"person">>, framesCount |-> framesCount,
     original_track_id |-> original_track_id]

CvatMeta(outside) ==
    [NoMeta EXCEPT !.z_order = Some(0), !.source_format = "cvat",
                   !.outside = IF outside THEN "True" ELSE "False"]
MotMeta == [NoMeta EXCEPT !.source_format = "mot"]

\* records as parse_video_track leaves them, keyframes or not by the pattern
CvatAnns(protos, pattern) ==
    [i \in 1..Len(protos) |->
        [IRVideoBBoxAnnotation(1, protos[i].frame, ShapeAt(0, i).box,
                               IF protos[i].outside THEN R(0) ELSE R(1),
                               CvatMeta(protos[i].outside))
         EXCEPT !.keyframe = (i * pattern) % 2 = 0]]

\* records of a track without ls_enabled and source_format
UntaggedAnn(proto) ==
    IRVideoBBoxAnnotation(1, proto.frame, BoxA,
        CASE proto.kind = "visible" -> R(1)
          [] proto.kind = "inside" -> Rat(1, 2)
          [] OTHER -> R(0),
        CASE proto.kind = "outside" -> [NoMeta EXCEPT !.outside = "True"]
          [] proto.kind = "inside" -> [NoMeta EXCEPT !.outside = "False"]
          [] OTHER -> NoMeta)

MixedMetas ==
    {PlainMeta, MotMeta, CvatMeta(FALSE), LsEnabledMeta, LsDisabledMeta,
     [LsDisabledMeta EXCEPT !.ls_enabled = "s:false",
                            !.ls_frames_count = Some(MaxSeqLength)]}

\* the categories dict of a record: one entry, two, or none
CategorySets == {{"person"}, {"person", "car"}, {}}

\* the frame numbers of a 1-based and of a 0-based sequence
FrameNumberSequences == {<<1, 2, 10>>, <<0, 1, 9>>}

\* CVAT documents as an annotation tool writes them: one track of boxes,
\* with the frame size in <original_size>
DocBoxes ==
    {[xtl |-> R(100), ytl |-> R(150), xbr |-> R(150), ybr |-> R(270)],
     [xtl |-> Rat(21, 2), ytl |-> R(16), xbr |-> R(35), ybr |-> Rat(185, 4)]}
DocSizes == {[width |-> 1920, height |-> 1080], [width |-> 640, height |-> 480]}
CvatDocuments ==
    UNION {
        {[size |-> 3, width |-> s.width, height |-> s.height,
          tracks |-> <<[id |-> 1, label |-> "person",
                        boxes |-> [i \in 1..k |->
                                     [frame |-> p[i].frame, outside |-> p[i].outside,
                                      occluded |-> 0, keyframe |-> 1,
                                      xtl |-> p[i].box.xtl, ytl |-> p[i].box.ytl,
                                      xbr |-> p[i].box.xbr, ybr |-> p[i].box.ybr,
                                      z_order |-> 0]]]>>] :
            p \in [1..k -> [frame : 0..2, outside : {0, 1}, box : DocBoxes]],
            s \in DocSizes} :
        k \in 1..2}

\* Either a Label Studio track to be converted and taken through CVAT XML
\* (visible items at increasing frames; items with the outside field, frames
\* from 0; items with the outside and visibility fields; items at any frames,
\* a negative one included), or IR records to be turned into a Label Studio track: a track
\* parsed from CVAT, an untagged track, a track of mixed provenance, two
\* tracks, a track whose records have one, two or no categories; or, with
\* neither, a CVAT document to be loaded.
\* the frames of the records and items of a track of up to MaxLen entries:
\* room for entries one frame apart and further apart, in any order
LsFrames == 0..(MaxLen + 1)

InitLs ==
    /\ \/ \E S \in SUBSET (1..(MaxFrame + 1)) :
            /\ Cardinality(S) <= MaxBoxes
            /\ \E en \in [S -> BOOLEAN], fc \in {None, Some(MaxSeqLength)},
                  tid \in {None, Some(1)} :
                  /\ ls = <<LsRect([i \in 1..Cardinality(S) |->
                                       LsItem(SetToSortedSeq(S)[i],
                                              en[SetToSortedSeq(S)[i]], "absent")],
                                   fc, tid)>>
                  /\ anns = <<>>
       \/ \E k \in 0..MaxLen :
            \E p \in [1..k -> [frame : LsFrames, enabled : BOOLEAN,
                               outside : {"absent", "True", "s:false"}]] :
                /\ ls = <<LsRect([i \in 1..k |->
                                     LsItem(p[i].frame, p[i].enabled, p[i].outside)],
                                 None, Some(1))>>
                /\ anns = <<>>
       \/ \E k \in 0..MaxLen :
            \E p \in [1..k -> [enabled : BOOLEAN, outside : {"absent", "True", "s:false"},
                               visibility : {None, Some(R(0)), Some(Rat(1, 2))}]] :
                /\ ls = <<LsRect([i \in 1..k |->
                                     [LsItem(i, p[i].enabled, p[i].outside)
                                      EXCEPT !.visibility = p[i].visibility]],
                                 None, Some(1))>>
                /\ anns = <<>>
       \/ \E k \in 0..MaxLen :
            \E p \in [1..k -> (0 - 1)..(MaxFrame + 1)] :
                /\ ls = <<LsRect([i \in 1..k |-> LsItem(p[i], TRUE, "absent")], None, Some(1))>>
                /\ anns = <<>>
       \/ \E p \in FrameNumberSequences :
                /\ ls = <<LsRect([i \in 1..Len(p) |-> LsItem(p[i], TRUE, "absent")],
                                 None, Some(1))>>
                /\ anns = <<>>
       \/ \E k \in 0..MaxBoxes :
            \E p \in [1..k -> [frame : 0..MaxBoxes, outside : BOOLEAN]],
               pattern \in {0, 1} :
                /\ ls = <<>>
                /\ anns = CvatAnns(p, pattern)
       \/ \E k \in 0..MaxLen :
            \E p \in [1..k -> [frame : 0..MaxLen, outside : BOOLEAN]],
               track \in [1..k -> {1, 2}] :
                /\ ls = <<>>
                /\ anns = [i \in 1..k |-> [CvatAnns(p, 0)[i] EXCEPT !.track_id = track[i]]]
       \/ \E k \in 0..MaxLen :
            \E p \in [1..k -> [frame : LsFrames,
                               kind : {"visible", "hidden", "outside", "inside"}]] :
                /\ ls = <<>>
                /\ anns = [i \in 1..k |-> UntaggedAnn(p[i])]
       \/ \E k \in 0..MaxLen :
            \E p \in [1..k -> [track : {1}, frame : LsFrames, meta : MixedMetas]] :
                /\ ls = <<>>
                /\ anns = MakeAnns(p, 0)
       \/ \E k \in 0..MaxLen :
            \E p \in [1..k -> [track : {1, 2}, frame : LsFrames, meta : TwoTrackMetas]] :
                /\ ls = <<>>
                /\ anns = MakeAnns(p, 1)
       \/ \E k \in 0..MaxLen :
            \E c \in [1..k -> CategorySets] :
                /\ ls = <<>>
                /\ anns = [i \in 1..k |->
                              [IRVideoBBoxAnnotation(1, i - 1, BoxA, R(1), PlainMeta)
                               EXCEPT !.categories = c[i]]]
    /\ orig = IF ls # <<>> THEN ls ELSE anns
    /\ seq_length_arg = None
    /\ xml \in {None} \cup (IF ls = <<>> /\ anns = <<>>
                            THEN {Some(d) : d \in CvatDocuments} ELSE {})
    /\ track_elem = None
    /\ ctx = EmptyContext
    /\ ctx_in = ctx
    /\ gt = <<>>
    /\ gt_prev = <<>>
    /\ trail = <<>>
    /\ size_arg = NoSize
    /\ video = None
    /\ converted = None
    /\ err = "none"

NextLs ==
    \/ ToIrAnnotations
    \/ ExportCvatVideoToXmlString
    \/ LoadCvatFromXmlString
    \/ VideoIrToLsVideoTasks
    \/ FromIrAnnotations
    \/ LsVideoTaskToVideoIr

SpecLs == InitLs /\ [][NextLs]_vars

----------------------------------------------------------------------------
(* Properties of the Label Studio codec.  After from_ir_annotations the     *)
(* caller's records are still in anns and the track built is ls[1].  A      *)
(* record is outside when its meta outside is true or, without that flag,   *)
(* its visibility is 0.0; the visible records, in frame order, and the      *)
(* items without the outside field correspond one to one.                   *)

LsBuilt == trail = <<"from_ir_annotations">> /\ err = "none"
Items == ls[1].sequence
RecOutside(r) ==
    \/ CoercedOutside(r)
    \/ r.meta.outside = "absent" /\ RLe(r.visibility, R(0))
VisibleIdx == SetToSortedSeq({i \in 1..Len(ByFrame) : ~RecOutside(ByFrame[i])})
VisibleItems == SelectSeq(Items, LAMBDA it : it.outside = "absent")
NoLsEnabled(r) == r.meta.ls_enabled = "absent"
FromMot == \E i \in 1..Len(anns) : anns[i].meta.source_format = "mot"
FromCvat == \E i \in 1..Len(anns) : anns[i].meta.source_format = "cvat"
Untagged ==
    \A i \in 1..Len(anns) :
        NoLsEnabled(anns[i]) /\ anns[i].meta.source_format = "absent"
HasNext(i) == i < Len(ByFrame)
NextOutside(i) == HasNext(i) /\ RecOutside(ByFrame[i + 1])
NextAdjacentKeyframes(i) ==
    /\ HasNext(i)
    /\ ByFrame[i + 1].frame_number = ByFrame[i].frame_number + 1
    /\ ByFrame[i].keyframe
    /\ ByFrame[i + 1].keyframe

\* C6: in from_ir_annotations a visible record without ls_enabled, in a track
\* not from MOT, gets enabled as follows.  In a track parsed from CVAT: false
\* if the next record is outside, or is exactly one frame later with both
\* records keyframes, and true otherwise, also when there is no next record.
\* In any other track: true exactly when there is a next record and it is
\* not outside.
C6_EnabledDerivation ==
    LsBuilt =>
        /\ Len(VisibleItems) = Len(VisibleIdx)
        /\ \A k \in 1..Len(VisibleIdx) :
              (NoLsEnabled(ByFrame[VisibleIdx[k]]) /\ ~FromMot) =>
                 VisibleItems[k].enabled =
                    IF FromCvat
                    THEN ~(NextOutside(VisibleIdx[k]) \/ NextAdjacentKeyframes(VisibleIdx[k]))
                    ELSE HasNext(VisibleIdx[k]) /\ ~NextOutside(VisibleIdx[k])

\* C6 as stated: the CVAT rule for every track that is not from MOT.
C6_AsStated ==
    LsBuilt =>
        /\ Len(VisibleItems) = Len(VisibleIdx)
        /\ \A k \in 1..Len(VisibleIdx) :
              (NoLsEnabled(ByFrame[VisibleIdx[k]]) /\ ~FromMot) =>
                 VisibleItems[k].enabled =
                    ~(NextOutside(VisibleIdx[k]) \/ NextAdjacentKeyframes(VisibleIdx[k]))

\* C6 witness: a CVAT track with keyframes at frames 0, 2 and 3: the first is
\* enabled (a gap follows), the second is not (its successor is adjacent),
\* the last is enabled.
C6_Witness ==
    /\ LsBuilt
    /\ FromCvat
    /\ Len(anns) = 3
    /\ \A i \in 1..3 : anns[i].keyframe /\ ~RecOutside(anns[i]) /\ NoLsEnabled(anns[i])
    /\ <<anns[1].frame_number, anns[2].frame_number, anns[3].frame_number>> = <<3, 0, 2>>
    /\ [i \in 1..Len(Items) |-> <<Items[i].frame, Items[i].enabled>>]
          = << <<1, TRUE>>, <<3, FALSE>>, <<4, TRUE>> >>

\* C7: in a track whose records have neither ls_enabled nor source_format,
\* every record becomes an item; an outside record's item has enabled false;
\* a visible record's item has enabled false when no visible record follows
\* it (the last visible record) or when the next record is outside, and
\* enabled true when the next record is a later visible one.
C7_UntaggedTrack ==
    (LsBuilt /\ Untagged) =>
        /\ Len(Items) = Len(anns)
        /\ \A i \in 1..Len(anns) :
              /\ Items[i].frame = ByFrame[i].frame_number + 1
              /\ RecOutside(ByFrame[i]) => ~Items[i].enabled
              /\ (/\ ~RecOutside(ByFrame[i])
                  /\ \A j \in (i + 1)..Len(anns) : RecOutside(ByFrame[j]))
                    => ~Items[i].enabled
              /\ (~RecOutside(ByFrame[i]) /\ NextOutside(i)) => ~Items[i].enabled
              /\ (/\ ~RecOutside(ByFrame[i])
                  /\ HasNext(i)
                  /\ ~RecOutside(ByFrame[i + 1])
                  /\ ByFrame[i + 1].frame_number > ByFrame[i].frame_number)
                    => Items[i].enabled

\* C7 witness: two untagged visible keyframes at frames 1 and 2: the first is
\* enabled, the last is not; and a hidden record before a visible one is an
\* item with enabled false.
C7_Witness ==
    /\ LsBuilt
    /\ Untagged
    /\ Len(anns) = 2
    /\ anns[1].frame_number = 2 /\ anns[2].frame_number = 1
    /\ ~RecOutside(anns[1]) /\ ~RecOutside(anns[2])
    /\ anns[1].keyframe /\ anns[2].keyframe
    /\ Items[1].frame = 2 /\ Items[1].enabled
    /\ Items[2].frame = 3 /\ ~Items[2].enabled

RoundTripped ==
    /\ trail = <<"to_ir_annotations", "export_cvat_video_to_xml_string",
                 "load_cvat_from_xml_string", "video_ir_to_ls_video_tasks">>
    /\ err = "none"
FrameEnabled(sequence) ==
    [i \in 1..Len(sequence) |-> <<sequence[i].frame, sequence[i].enabled>>]
VisibleIncreasing(sequence) ==
    /\ \A i \in 1..Len(sequence) : sequence[i].outside = "absent"
    /\ \A i \in 1..(Len(sequence) - 1) : sequence[i].frame < sequence[i + 1].frame

\* C8: a Label Studio track of visible items at strictly increasing frames,
\* taken through to_ir_annotations, export_cvat_video_to_xml_string,
\* load_cvat_from_xml_string and video_ir_to_ls_video_tasks, comes back with
\* the same list of (frame, enabled) pairs.
C8_RoundTripKeepsEnabled ==
    (RoundTripped /\ VisibleIncreasing(orig[1].sequence) /\ orig[1].sequence # <<>>) =>
        /\ Len(ls) = 1
        /\ FrameEnabled(ls[1].sequence) = FrameEnabled(orig[1].sequence)

\* the records of a CVAT import taken to Label Studio and back; orig holds
\* the imported records, anns the records that came back
CvatLsIr ==
    /\ trail = <<"video_ir_to_ls_video_tasks", "ls_video_task_to_video_ir">>
    /\ err = "none"
    /\ \A i \in 1..Len(orig) : orig[i].meta.source_format = "cvat"
OrigOutside(i) == orig[i].meta.outside = "True"
\* i comes before j in the frame order of their track (a stable sort)
OrigBefore(i, j) ==
    /\ orig[i].track_id = orig[j].track_id
    /\ \/ orig[i].frame_number < orig[j].frame_number
       \/ orig[i].frame_number = orig[j].frame_number /\ i < j
OrigVisibleBoxes == {i \in 1..Len(orig) : ~OrigOutside(i)}
OrigLeadingOutside ==
    {i \in 1..Len(orig) : OrigOutside(i) /\ \A j \in OrigVisibleBoxes : ~OrigBefore(j, i)}

\* C12: CVAT-imported tracks converted with video_ir_to_ls_video_tasks and
\* back with ls_video_task_to_video_ir yield as many records as the input has
\* non-outside boxes plus outside boxes that precede every visible box of
\* their track: an outside box is dropped exactly when a visible box of its
\* track comes before it in frame order, and every visible box is kept.
C12_CvatLsCount ==
    CvatLsIr =>
        /\ Len(anns) = Cardinality(OrigVisibleBoxes) + Cardinality(OrigLeadingOutside)
        /\ Cardinality({i \in 1..Len(anns) : anns[i].meta.outside = "False"})
              = Cardinality(OrigVisibleBoxes)

\* C12 as stated: exactly as many records as the input has non-outside boxes
C12_AsStated == CvatLsIr => Len(anns) = Cardinality(OrigVisibleBoxes)

C12_Witness ==
    /\ CvatLsIr
    /\ Len(orig) = 3
    /\ Cardinality(OrigVisibleBoxes) = 1
    /\ Cardinality(OrigLeadingOutside) = 1
    /\ Len(anns) = 2

LsImported == trail = <<"to_ir_annotations">>
OrigItems == orig[1].sequence
ItemOutside(item) == item.outside # "absent" /\ _coerce_bool_like(item.outside)
BoolTag(b) == IF b THEN "True" ELSE "False"

\* C17: to_ir_annotations produces one record per sequence item, with meta
\* ls_enabled equal to the item's enabled flag, meta outside equal to the
\* item's outside field (false when absent), and visibility equal to the
\* item's visibility field when it is a number, otherwise 0.0 if the item is
\* outside and 1.0 if not; a disabled item with neither field stays visible.
C17_RecordPerItem ==
    (LsImported /\ err = "none") =>
        /\ Len(anns) = Len(OrigItems)
        /\ \A i \in 1..Len(anns) :
              /\ anns[i].meta.ls_enabled = BoolTag(OrigItems[i].enabled)
              /\ anns[i].meta.outside = BoolTag(ItemOutside(OrigItems[i]))
              /\ anns[i].visibility =
                    IF ~IsNone(OrigItems[i].visibility) THEN Val(OrigItems[i].visibility)
                    ELSE IF ItemOutside(OrigItems[i]) THEN R(0)
                    ELSE R(1)

\* C17 as stated: visibility is 0.0 if the item is outside, otherwise the
\* visibility field when given, otherwise 1.0
C17_AsStated ==
    (LsImported /\ err = "none") =>
        /\ Len(anns) = Len(OrigItems)
        /\ \A i \in 1..Len(anns) :
              /\ anns[i].meta.ls_enabled = BoolTag(OrigItems[i].enabled)
              /\ anns[i].meta.outside = BoolTag(ItemOutside(OrigItems[i]))
              /\ anns[i].visibility =
                    IF ItemOutside(OrigItems[i]) THEN R(0)
                    ELSE IF ~IsNone(OrigItems[i].visibility) THEN Val(OrigItems[i].visibility)
                    ELSE R(1)

C17_Witness ==
    /\ LsImported
    /\ err = "none"
    /\ Len(anns) = 2
    /\ ~OrigItems[1].enabled
    /\ OrigItems[1].outside = "absent"
    /\ IsNone(OrigItems[1].visibility)
    /\ anns[1].visibility = R(1)
    /\ OrigItems[2].outside = "True"
    /\ OrigItems[2].visibility = Some(Rat(1, 2))
    /\ anns[2].visibility = Rat(1, 2)

ItemFrames == [i \in 1..Len(OrigItems) |-> OrigItems[i].frame]
RecordFrames == [i \in 1..Len(anns) |-> anns[i].frame_number]
ClaimedBase == IF \E i \in 1..Len(ItemFrames) : ItemFrames[i] = 0 THEN 0 ELSE 1

\* C18: to_ir_annotations takes the frame base 0 if some item has frame 0 and
\* 1 otherwise; when it returns, every record has frame_number = item.frame -
\* base, which is never negative; when some item's frame is below the base it
\* raises ValueError; the sequences [1,2,10] and [0,1,9] both give the frames
\* [0,1,9].
C18_FrameBase ==
    LsImported =>
        /\ err = "none" =>
              /\ Len(anns) = Len(OrigItems)
              /\ \A i \in 1..Len(anns) :
                    /\ anns[i].frame_number = ItemFrames[i] - ClaimedBase
                    /\ anns[i].frame_number >= 0
        /\ (\E i \in 1..Len(ItemFrames) : ItemFrames[i] < ClaimedBase)
              => (err = "ValueError" /\ anns = <<>>)
        /\ ItemFrames \in FrameNumberSequences
              => (err = "none" /\ RecordFrames = <<0, 1, 9>>)

C18_Witness ==
    /\ LsImported
    /\ ItemFrames = <<1, 2, 10>>
    /\ RecordFrames = <<0, 1, 9>>

\* C25: converting records to a Label Studio track raises
\* MultipleCategoriesError whenever any record of the track, not only the
\* first, has a number of categories other than one.
C25_EveryRecordChecked ==
    (/\ Len(trail) = 1
     /\ trail[1] \in {"from_ir_annotations", "video_ir_to_ls_video_tasks"}
     /\ \E i \in 1..Len(anns) : ~has_one_category(anns[i]))
        => err = "MultipleCategoriesError"

\* a CVAT document was loaded and its records converted to Label Studio
CvatToLs ==
    /\ trail = <<"load_cvat_from_xml_string", "video_ir_to_ls_video_tasks">>
    /\ err = "none"
GivenTrack == Val(xml).tracks[1]
Percent(v, dim) == Rat(100 * v.n, v.d * dim)
BoxRecord(box) ==
    {i \in 1..Len(anns) :
        /\ anns[i].track_id = GivenTrack.id
        /\ anns[i].frame_number = box.frame
        /\ anns[i].coordinate_style = "DENORMALIZED"
        /\ anns[i].left = box.xtl
        /\ anns[i].top = box.ytl
        /\ RAdd(anns[i].left, anns[i].width) = box.xbr
        /\ RAdd(anns[i].top, anns[i].height) = box.ybr}
RecordItem(r) ==
    {i \in 1..Len(ls[1].sequence) :
        LET item == ls[1].sequence[i]
        IN  /\ item.frame = r.frame_number + 1
            /\ item.x = Percent(r.left, Val(xml).width)
            /\ item.y = Percent(r.top, Val(xml).height)
            /\ item.width = Percent(r.width, Val(xml).width)
            /\ item.height = Percent(r.height, Val(xml).height)}

\* C22: every <box> (xtl, ytl, xbr, ybr) at frame f of a loaded CVAT document
\* with frame size W x H is a DENORMALIZED record with left = xtl, top = ytl,
\* width = xbr - xtl, height = ybr - ytl and frame_number = f, and the
\* sequence item of a record that is not outside has x = 100*left/W,
\* y = 100*top/H, width = 100*width/W, height = 100*height/H and frame f + 1.
C22_CvatToLsGeometry ==
    CvatToLs =>
        /\ Len(anns) = Len(GivenTrack.boxes)
        /\ \A b \in 1..Len(GivenTrack.boxes) : BoxRecord(GivenTrack.boxes[b]) # {}
        /\ Len(ls) = 1
        /\ \A i \in 1..Len(anns) :
              anns[i].meta.outside = "False" => RecordItem(anns[i]) # {}
        /\ \A i \in 1..Len(ls[1].sequence) :
              \E j \in 1..Len(anns) : i \in RecordItem(anns[j])

\* C22 witness: the box 100,150,150,270 at frame 0 of a 1920x1080 document
\* became the record 100, 150, 50, 120 and the item 125/24 (5.208333),
\* 125/9 (13.888889), 125/48 (2.604167), 100/9 (11.111111) at frame 1.
C22_Witness ==
    /\ CvatToLs
    /\ Val(xml).width = 1920 /\ Val(xml).height = 1080
    /\ Len(GivenTrack.boxes) = 1
    /\ GivenTrack.boxes[1].frame = 0
    /\ GivenTrack.boxes[1].xtl = R(100) /\ GivenTrack.boxes[1].outside = 0
    /\ anns[1].left = R(100) /\ anns[1].top = R(150)
    /\ anns[1].width = R(50) /\ anns[1].height = R(120)
    /\ ls[1].sequence[1].frame = 1
    /\ ls[1].sequence[1].x = Rat(125, 24)
    /\ ls[1].sequence[1].y = Rat(125, 9)
    /\ ls[1].sequence[1].width = Rat(125, 48)
    /\ ls[1].sequence[1].height = Rat(100, 9)

----------------------------------------------------------------------------
(* MOT: reading a gt.txt file, and the runs of the line codec and of the    *)
(* file import, alone or followed by the conversion to Label Studio and     *)
(* back.                                                                    *)

\* load_mot_from_file: the frame -> records dict, listed value by value as
\* the callers flatten it
load_mot_from_file(lines, context) ==
    DictValues([i \in 1..Len(lines) |-> import_bbox_from_line(lines[i], context)], {})

LoadMotFromFile ==
    /\ err = "none"
    /\ trail = <<>>
    /\ anns = <<>>
    /\ anns' = load_mot_from_file(gt, ctx)
    /\ trail' = Append(trail, "load_mot_from_file")
    /\ UNCHANGED <<size_arg, video, converted,
                   ctx, ctx_in, gt, gt_prev, xml, track_elem, seq_length_arg, ls, orig, err>>

BoxHalves == [left |-> Rat(5, 2), top |-> R(10), width |-> Rat(41, 2), height |-> R(40)]
BoxFullFrame == [left |-> R(0), top |-> R(0), width |-> R(1), height |-> R(1)]
BoxCentre == [left |-> Rat(1, 4), top |-> Rat(1, 4), width |-> Rat(1, 2), height |-> Rat(1, 2)]

MotLines ==
    [frame : 1..(MaxFrame + 1), track : {1, 2}, box : {BoxA, BoxHalves},
     not_ignored : {0, 1}, class_id : {1, 2}, visibility : {R(0), Rat(1, 2), R(1)}]

MotLine(f) ==
    [frame |-> f.frame, track |-> f.track,
     x |-> f.box.left, y |-> f.box.top, w |-> f.box.width, h |-> f.box.height,
     not_ignored |-> f.not_ignored, class_id |-> f.class_id, visibility |-> f.visibility]

LineRecords ==
    [frame : 0..MaxFrame, vis : {R(0), Rat(1, 2), R(1)},
     shape : {<<"DENORMALIZED", BoxA>>, <<"DENORMALIZED", BoxHalves>>,
              <<"DENORMALIZED", BoxFullFrame>>,
              <<"NORMALIZED", BoxFullFrame>>, <<"NORMALIZED", BoxCentre>>},
     ignored : {"absent", "True", "False"}, name : {"person", "car"}]

LineRecord(f) ==
    [IRVideoBBoxAnnotation(7, f.frame, f.shape[2], f.vis, [NoMeta EXCEPT !.ignored = f.ignored])
     EXCEPT !.coordinate_style = f.shape[1], !.categories = {f.name}]

BoxOverEdge == [left |-> R(0 - 5), top |-> R(10), width |-> R(20), height |-> R(40)]

\* the rows of a gt.txt file and the context it is read under: every box
\* inside the frame, the first box over the left edge, or no frame size
FileRows == [frame : 1..MaxFrame, track : {1, 2}, visibility : {R(0), R(1)}]
FileKinds == {"inside", "over_edge", "no_size"}
MotFile(p, kind) ==
    [i \in 1..Len(p) |->
        MotLine([frame |-> p[i].frame, track |-> p[i].track,
                 box |-> IF kind = "over_edge" /\ i = 1 THEN BoxOverEdge ELSE BoxA,
                 not_ignored |-> 1, class_id |-> 1, visibility |-> p[i].visibility])]
FileContext(kind) ==
    [EmptyContext EXCEPT
        !.image_width = IF kind = "no_size" THEN None ELSE Some(ImageSize.width),
        !.image_height = IF kind = "no_size" THEN None ELSE Some(ImageSize.height),
        !.categories = <<<<1, "person">>, <<2, "car">>>>]


\* A gt.txt row with the context it is read under, a record with the
\* context it is written under, or a gt.txt file with its context.
InitMotImport ==
    /\ \/ \E k \in 0..MaxLen :
            \E p \in [1..k -> FileRows], kind \in FileKinds :
              /\ gt = MotFile(p, kind)
              /\ anns = <<>>
              /\ ctx = FileContext(kind)
              /\ orig = gt
       \/ \E f \in MotLines, dim \in {None, Some(100)},
              table \in {<<>>, <<<<1, "person">>, <<2, "car">>>>} :
              /\ gt = <<MotLine(f)>>
              /\ anns = <<>>
              /\ ctx = [EmptyContext EXCEPT !.image_width = dim, !.image_height = dim,
                                            !.categories = table]
              /\ orig = gt
       \/ \E f \in LineRecords, table \in {<<>>, <<<<3, "car">>>>} :
              /\ anns = <<LineRecord(f)>>
              /\ gt = <<>>
              /\ ctx = [EmptyContext EXCEPT !.image_width = Some(100), !.image_height = Some(50),
                                            !.categories = table]
              /\ orig = anns
    /\ ctx_in = ctx
    /\ gt_prev = <<>>
    /\ xml = <<>>
    /\ track_elem = None
    /\ seq_length_arg = None
    /\ ls = <<>>
    /\ trail = <<>>
    /\ size_arg = NoSize
    /\ video = None
    /\ converted = None
    /\ err = "none"

NextMotImport ==
    \/ ImportBboxFromLine
    \/ ExportBboxToLine
    \/ LoadMotFromFile
    \/ VideoIrToLsVideoTasks
    \/ LsVideoTaskToVideoIr

SpecMotImport == InitMotImport /\ [][NextMotImport]_vars

----------------------------------------------------------------------------
(* Properties of the MOT line codec and of the MOT import *)

LineImported == trail # <<>> /\ trail[Len(trail)] = "import_bbox_from_line" /\ err = "none"
LineExported == trail # <<>> /\ trail[Len(trail)] = "export_bbox_to_line" /\ err = "none"
LineRoundTrip == trail = <<"export_bbox_to_line", "import_bbox_from_line">> /\ err = "none"
IsWhole(v) == v.n % v.d = 0
IntegerGeometry(r) ==
    IsWhole(r.left) /\ IsWhole(r.top) /\ IsWhole(r.width) /\ IsWhole(r.height)
Ignored(r) == r.meta.ignored # "absent" /\ PyBool(r.meta.ignored)
SameBoxAndFrame(a, b) ==
    /\ a.frame_number = b.frame_number
    /\ a.track_id = b.track_id
    /\ a.left = b.left
    /\ a.top = b.top
    /\ a.width = b.width
    /\ a.height = b.height
    /\ a.visibility = b.visibility
    /\ Ignored(a) <=> Ignored(b)

\* C14: for any record in pixel coordinates (DENORMALIZED) with integer-valued
\* geometry, import_bbox_from_line(export_bbox_to_line(ann, ctx), ctx) has the
\* same frame_number, track_id, left, top, width, height and visibility, and
\* is ignored if and only if the record was.
C14_LineRoundTrip ==
    (LineRoundTrip /\ IntegerGeometry(orig[1])
        /\ orig[1].coordinate_style = "DENORMALIZED")
        => SameBoxAndFrame(anns[1], orig[1])

\* C14 as stated: the same for any record with integer-valued geometry
C14_AsStated ==
    (LineRoundTrip /\ IntegerGeometry(orig[1])) => SameBoxAndFrame(anns[1], orig[1])

C14_Witness ==
    /\ LineRoundTrip
    /\ IntegerGeometry(orig[1])
    /\ orig[1].coordinate_style = "DENORMALIZED"
    /\ orig[1].meta.ignored = "True"
    /\ orig[1].frame_number = 2
    /\ Ignored(anns[1])

\* C15: import_bbox_from_line gives frame_number = (first field) - 1, and the
\* first field of export_bbox_to_line's row is frame_number + 1.
C15_FrameConvention ==
    /\ LineImported => anns[1].frame_number = gt[1].frame - 1
    /\ LineExported => gt[1].frame = anns[1].frame_number + 1

C15_Witness ==
    /\ trail = <<"export_bbox_to_line">>
    /\ err = "none"
    /\ anns[1].frame_number = 0
    /\ gt[1].frame = 1

\* C16: an imported record has meta ignored = True exactly when the line's
\* not_ignored field is 0, meta outside = True whenever the line's visibility
\* is <= 0.0, and keyframe = true.
C16_ImportedMeta ==
    LineImported =>
        /\ (anns[1].meta.ignored = "True") <=> (gt[1].not_ignored = 0)
        /\ RLe(gt[1].visibility, R(0)) => anns[1].meta.outside = "True"
        /\ anns[1].keyframe

MotLoaded == trail # <<>> /\ trail[1] = "load_mot_from_file"
MotToLs == trail = <<"load_mot_from_file", "video_ir_to_ls_video_tasks">> /\ err = "none"
MotLsIr ==
    /\ trail = <<"load_mot_from_file", "video_ir_to_ls_video_tasks",
                 "ls_video_task_to_video_ir">>
    /\ err = "none"
Loaded == load_mot_from_file(gt, ctx)
TrackFrames(records) ==
    {<<records[i].track_id, records[i].frame_number>> : i \in 1..Len(records)}
KeyframesAt(records, pair) ==
    {records[i].keyframe :
        i \in {j \in 1..Len(records) :
                  <<records[j].track_id, records[j].frame_number>> = pair}}
SizeKnown ==
    /\ ~IsNone(ctx.image_width)
    /\ ~IsNone(ctx.image_height)
    /\ Val(ctx.image_width) > 0
    /\ Val(ctx.image_height) > 0
Within(v, size) == RLe(R(0), v) /\ RLe(v, R(size))
InsideFrame(line) ==
    /\ Within(line.x, Val(ctx.image_width))
    /\ Within(line.w, Val(ctx.image_width))
    /\ Within(line.y, Val(ctx.image_height))
    /\ Within(line.h, Val(ctx.image_height))

\* C11: every sequence item that video_ir_to_ls_video_tasks produces for
\* records loaded from MOT has enabled = False.
C11_MotItemsDisabled ==
    MotToLs => \A k \in 1..Len(ls) : \A i \in 1..Len(ls[k].sequence) :
                  ~ls[k].sequence[i].enabled

\* C13: for records loaded from MOT under a context that gives a positive
\* frame size, every box lying inside the frame, video_ir_to_ls_video_tasks
\* and ls_video_task_to_video_ir return, and the records that come back have
\* the same set of (track_id, frame_number) pairs, each track carried by its
\* original_track_id, and the same keyframe flag for each pair.
C13_MotLsRoundTrip ==
    MotLoaded =>
        /\ (SizeKnown /\ \A i \in 1..Len(gt) : InsideFrame(gt[i])) => err = "none"
        /\ MotToLs =>
              {Val(ls[k].original_track_id) : k \in 1..Len(ls)} = TrackIds(Loaded)
        /\ MotLsIr =>
              /\ TrackFrames(anns) = TrackFrames(Loaded)
              /\ \A pair \in TrackFrames(Loaded) :
                    KeyframesAt(anns, pair) = KeyframesAt(Loaded, pair)

\* C13 as stated: for any records loaded from MOT the two conversions return
\* and the pairs and keyframe flags are the same
C13_AsStated ==
    MotLoaded =>
        /\ err = "none"
        /\ MotLsIr =>
              /\ TrackFrames(anns) = TrackFrames(Loaded)
              /\ \A pair \in TrackFrames(Loaded) :
                    KeyframesAt(anns, pair) = KeyframesAt(Loaded, pair)

C13_Witness ==
    /\ MotLsIr
    /\ SizeKnown
    /\ TrackFrames(anns) = {<<1, 0>>, <<2, 0>>}

----------------------------------------------------------------------------
(* Coordinate conversion and the resolution of the frame size: records     *)
(* with and without frame dimensions, converted one at a time or exported  *)
(* with or without explicit dimensions and a video file.                   *)

\* anns[i].normalized()
Normalized(i) ==
    /\ trail = <<>>
    /\ LET e == NormalizeError(anns[i])
       IN  /\ err' = e
           /\ converted' = Some([index |-> i,
                                 result |-> IF e = "none" THEN Some(normalized(anns[i]))
                                            ELSE None])
           /\ anns' = IF e = "none"
                      THEN [anns EXCEPT ![i] = MadeOnCopy(@, normalized(@))] ELSE anns
    /\ trail' = Append(trail, "normalized")
    /\ UNCHANGED <<size_arg, video, ctx, ctx_in, gt, gt_prev, xml, track_elem,
                   seq_length_arg, ls, orig>>

\* anns[i].denormalized()
Denormalized(i) ==
    /\ trail = <<>>
    /\ LET e == DenormalizeError(anns[i])
       IN  /\ err' = e
           /\ converted' = Some([index |-> i,
                                 result |-> IF e = "none" THEN Some(denormalized(anns[i]))
                                            ELSE None])
           /\ anns' = IF e = "none"
                      THEN [anns EXCEPT ![i] = MadeOnCopy(@, denormalized(@))] ELSE anns
    /\ trail' = Append(trail, "denormalized")
    /\ UNCHANGED <<size_arg, video, ctx, ctx_in, gt, gt_prev, xml, track_elem,
                   seq_length_arg, ls, orig>>

\* what the probes find for a video_file: nothing readable, or a video
VideoFiles ==
    {None,
     Some([readable |-> FALSE, width |-> 0, height |-> 0, fps |-> 0, frame_count |-> None]),
     Some([readable |-> TRUE, width |-> 320, height |-> 240, fps |-> 25,
           frame_count |-> Some(MaxSeqLength)])}

\* the dimensions a record carries: none, zeros, two sizes, a width alone
AnnDims ==
    {[w |-> None, h |-> None], [w |-> Some(0), h |-> Some(0)],
     [w |-> Some(100), h |-> Some(50)], [w |-> Some(200), h |-> Some(80)],
     [w |-> Some(100), h |-> None]}

\* the explicit dimensions of a call: none, both, a width alone
ExplicitSizes ==
    {NoSize, [image_width |-> Some(640), image_height |-> Some(480)],
     [image_width |-> Some(640), image_height |-> None]}

\* a record of track 1 in either coordinate style with the given dimensions
DimAnn(frame, style, dims) ==
    [IRVideoBBoxAnnotation(1, frame,
         IF style = "NORMALIZED"
         THEN [left |-> Rat(1, 4), top |-> Rat(1, 5), width |-> Rat(1, 2), height |-> Rat(2, 5)]
         ELSE BoxA,
         R(1), LsEnabledMeta)
     EXCEPT !.coordinate_style = style, !.video_width = dims.w, !.video_height = dims.h]

\* The caller's records (at frames 0, 2, ...), the explicit dimensions, given
\* both in the MOTContext and as the CVAT arguments, and the video file.
InitDims ==
    /\ \E k \in 0..MaxLen :
          \E p \in [1..k -> [style : {"NORMALIZED", "DENORMALIZED"}, dims : AnnDims]] :
              anns = [i \in 1..k |-> DimAnn(2 * (i - 1), p[i].style, p[i].dims)]
    /\ size_arg \in ExplicitSizes
    /\ ctx = [EmptyContext EXCEPT !.image_width = size_arg.image_width,
                                  !.image_height = size_arg.image_height]
    /\ video \in VideoFiles
    /\ ctx_in = ctx
    /\ orig = anns
    /\ converted = None
    /\ gt = <<>>
    /\ gt_prev = <<>>
    /\ xml = None
    /\ track_elem = None
    /\ seq_length_arg = None
    /\ ls = <<>>
    /\ trail = <<>>
    /\ err = "none"

NextDims ==
    \/ \E i \in 1..Len(anns) : Normalized(i)
    \/ \E i \in 1..Len(anns) : Denormalized(i)
    \/ ExportToMot(video)
    \/ ExportCvatVideoToXmlString
    \/ FromIrAnnotations

SpecDims == InitDims /\ [][NextDims]_vars

Receiver == anns[Val(converted).index]
DimensionUnknown(r) == IsNone(r.video_width) \/ IsNone(r.video_height)

\* C24: normalized() on a DENORMALIZED record and denormalized() on a
\* NORMALIZED record whose width or height dimension is None raise
\* ValueError and return no record.
C24_ConversionNeedsDimensions ==
    /\ (trail = <<"normalized">> /\ Receiver.coordinate_style = "DENORMALIZED"
            /\ DimensionUnknown(Receiver))
          => (err = "ValueError" /\ IsNone(Val(converted).result))
    /\ (trail = <<"denormalized">> /\ Receiver.coordinate_style = "NORMALIZED"
            /\ DimensionUnknown(Receiver))
          => (err = "ValueError" /\ IsNone(Val(converted).result))

\* the dimension the resolution order gives: the explicit value, else the
\* first positive one on a record, else the one probed from the video file
ClaimedDim(explicit, field, probed_field) ==
    LET on_record == {i \in 1..Len(anns) :
                         ~IsNone(anns[i][field]) /\ Val(anns[i][field]) > 0}
    IN  IF ~IsNone(explicit) THEN explicit
        ELSE IF on_record # {} THEN anns[SetMin(on_record)][field]
        ELSE IF ~IsNone(video) /\ Val(video).readable THEN Some(Val(video)[probed_field])
        ELSE None

====
